---- MODULE Spec2Model ----
(***************************************************************************)
(* Piece lifecycle engine of monkeypuzzle (internal/core/piece): the       *)
(* handlers CreatePiece, CreatePieceFromIssue, UpdatePiece, MergePiece,    *)
(* IsBranchMerged and CleanupMergedPieces, over the external state they    *)
(* drive through the Exec and FS ports (git, tmux, gh, hook scripts,       *)
(* issue files).  Every handler is one action; the commands it issued and  *)
(* what it returned are recorded in `last`.                                *)
(***************************************************************************)
EXTENDS Integers, Sequences, FiniteSets, TLC

\* ------------------------------------------------------------------------
\* Bounds of the model
\* ------------------------------------------------------------------------
\* piece worktrees that exist at the same time
MaxPieces == 2
\* commits counted on either side of a piece branch / main (saturating)
MaxCommits == 1
\* commands of the Exec/FS ports that fail during one handler call
MaxFaults == 1
\* segments of an issue path given to CreatePieceFromIssue
MaxPathLen == 2
\* entries in the environment the tool is started with
MaxEnvLen == 2
MaxDocLines == 4
\* longest name given to SanitizePieceName, in characters
MaxNameLen == 4

\* ------------------------------------------------------------------------
\* Program constants
\* ------------------------------------------------------------------------
\* GeneratePieceName: "if counter > 1000" safety limit
GenLimit == 1000

MainBranch == "main"
OtherBranch == "dev"

StatusTodo == "todo"
StatusInProgress == "in-progress"
StatusDone == "done"
Statuses == {StatusTodo, StatusInProgress, StatusDone}
DefaultStatus == StatusTodo
\* what the status field of an issue file can hold: one of the three
\* statuses, nothing (no field, or no frontmatter), or another word
MissingStatus == ""
InvalidStatus == "blocked"
StatusFields == Statuses \cup {MissingStatus, InvalidStatus}

HookOnPieceCreate == "on-piece-create.sh"
HookBeforePieceMerge == "before-piece-merge.sh"
HookAfterPieceMerge == "after-piece-merge.sh"
HookBeforePieceUpdate == "before-piece-update.sh"
HookAfterPieceUpdate == "after-piece-update.sh"

\* ------------------------------------------------------------------------
\* Names, paths
\* ------------------------------------------------------------------------
\* GeneratePieceName's candidate for a counter value: piece-<timestamp> and
\* piece-<timestamp>-<counter>; the clock is one fixed second "t".
GenName(counter) ==
    IF counter = 0 THEN "piece-t" ELSE "piece-t-" \o ToString(counter)

IssuePieceName == "add-login"
\* names given with --name that hold a path separator
NestedPieceName == "wip/add-login"
EscapingPieceName == "../add-login"

\* every piece name the model can create, in directory (ReadDir) order
NameOrder == <<IssuePieceName>> \o [i \in 1..MaxPieces |-> GenName(i - 1)] \o <<NestedPieceName, EscapingPieceName>>
Names == {NameOrder[i] : i \in 1..Len(NameOrder)}

NoPath == <<>>
RepoRoot == <<"repo">>
\* cfg.Issues.Provider and cfg.Issues.Config["directory"] of the project
ConfigProvider == "markdown"
IssuesDir == <<"issues">>
Segments == {"..", "issues", "a.md"}

\* the markdown files on disk (cleaned absolute paths)
InsideIssue == <<"repo", "issues", "a.md">>
IssueFiles == {InsideIssue, <<"repo", "a.md">>, <<"a.md">>}
Directories == {<<>>, <<"repo">>, <<"repo", "issues">>}

VARIABLES
    worktrees,    \* piece names with a worktree directory under the pieces root
    sessions,     \* piece names whose tmux session mp-piece-<name> exists
    repoBranch,   \* branch checked out in the main repository
    own,          \* [name -> commits on the piece branch that main lacks]
    subjects,     \* [name -> how many of those commits have a subject line]
    behind,       \* [name -> commits on main that the piece branch lacks]
    forgePR,      \* [name -> "none" | "open" | "merged"]: pull request whose head is the branch
    prMeta,       \* piece names whose worktree holds .monkeypuzzle/pr-metadata.json
    remote,       \* branch names that exist on origin
    marker,       \* [name -> issue path of current-issue.json, or NoPath]
    issueStatus,  \* [issue file -> status field of its frontmatter]
    repoDir,      \* directory of the main repository (path segments)
    branchOf,     \* [name -> branch checked out in the piece's worktree, "" without one]
    last          \* the last handler call: what it ran and what it returned

world == <<worktrees, sessions, repoBranch, own, behind, forgePR, prMeta,
           remote, marker, issueStatus, repoDir, branchOf, subjects>>
vars == <<worktrees, sessions, repoBranch, own, behind, forgePR, prMeta,
          remote, marker, issueStatus, repoDir, branchOf, subjects, last>>

\* the external state as one value, threaded through the handlers
World ==
    [worktrees |-> worktrees, sessions |-> sessions, repoBranch |-> repoBranch,
     own |-> own, behind |-> behind, forgePR |-> forgePR, prMeta |-> prMeta,
     remote |-> remote, marker |-> marker, issueStatus |-> issueStatus,
     repoDir |-> repoDir, branchOf |-> branchOf, subjects |-> subjects]

PRNumber(name) == CHOOSE i \in 1..Len(NameOrder) : NameOrder[i] = name

Min(a, b) == IF a < b THEN a ELSE b

\* ------------------------------------------------------------------------
\* Exec / FS ports: a command fails when the call's fault set names it
\* ------------------------------------------------------------------------
Cmd(c, a) == [cmd |-> c, arg |-> a]
AnyArg == "*"
\* a fault names a command for one argument, or for any argument
Fails(F, c, a) == Cmd(c, a) \in F \/ Cmd(c, AnyArg) \in F
\* a command that was run, and whether its port returned no error
Ran(c, a, ok) == [cmd |-> c, arg |-> a, ok |-> ok]

RECURSIVE SetsUpTo(_, _)
SetsUpTo(S, k) ==
    IF k = 0 THEN {{}}
    ELSE LET T == SetsUpTo(S, k - 1) IN T \cup {t \cup {x} : t \in T, x \in S}

\* the fault sets a call can meet: at most MaxFaults of its commands fail
FaultSets(cmds) == SetsUpTo(cmds, MaxFaults)

NoStatus == [IsMerged |-> FALSE, Method |-> "", PRNumber |-> 0, ExistsOnRemote |-> FALSE]

\* a hook file as Stat and bash see it: whether Stat finds it ("yes"), reports
\* that it does not exist ("no") or fails otherwise ("error"), its permission
\* bits, and the exit status of the script
ExecBits == {"u+x", "g+x", "o+x"}
HookFiles ==
    {[stat |-> "no", mode |-> {}, exit |-> 0], [stat |-> "error", mode |-> {}, exit |-> 0]}
    \cup [stat : {"yes"}, mode : SUBSET ExecBits, exit : {0, 1}]
NoHookFile == [stat |-> "no", mode |-> {}, exit |-> 0]

\* HookContext: a string is the sequence of its characters
ContextFields == <<"PieceName", "WorktreePath", "RepoRoot", "MainBranch", "SessionName">>
NoContext == [f \in {ContextFields[i] : i \in 1..Len(ContextFields)} |-> <<>>]

NoCall ==
    [op |-> "none", piece |-> "", err |-> "", log |-> <<>>, warnings |-> <<>>,
     status |-> NoStatus, results |-> <<>>, detected |-> {}, dryRun |-> FALSE,
     commitMsg |-> <<>>, issuePath |-> [abs |-> FALSE, segs |-> <<>>],
     hookFile |-> NoHookFile, ctx |-> NoContext, environ |-> <<>>, env |-> <<>>,
     stats |-> 0, doc |-> <<>>, newStatus |-> "", updated |-> <<>>,
     parsed |-> [status |-> "", err |-> ""], text |-> <<>>, sanitized |-> <<>>,
     info |-> [InPiece |-> FALSE, PieceName |-> "", WorktreePath |-> <<>>, RepoRoot |-> <<>>]]

\* ------------------------------------------------------------------------
\* Hook runner
\* ------------------------------------------------------------------------
\* what a hook file is for one call: absent, present without any executable
\* bit, or executable and exiting zero / non-zero
HookStates == {"missing", "nonexec", "pass", "fail"}

\* a runner that does not look at the exit status of the script
RunHookIgnoringExit(hookName, hookState) ==
    IF hookState = "missing" THEN
        [err |-> "", log |-> <<>>, warnings |-> <<>>]
    ELSE IF hookState = "nonexec" THEN
        [err |-> "", log |-> <<>>, warnings |-> <<"hook not executable">>]
    ELSE
        [err |-> "", log |-> <<Ran("bash", hookName, hookState = "pass")>>, warnings |-> <<>>]

\* RunHook: a missing hook is success; a non-executable one is skipped with
\* a warning; otherwise bash runs it and a non-zero exit is the error.
RunHook(hookName, hookState) ==
    IF hookState = "missing" THEN
        [err |-> "", log |-> <<>>, warnings |-> <<>>]
    ELSE IF hookState = "nonexec" THEN
        [err |-> "", log |-> <<>>, warnings |-> <<"hook not executable">>]
    ELSE IF hookState = "fail" THEN
        [err |-> "hook failed", log |-> <<Ran("bash", hookName, FALSE)>>, warnings |-> <<>>]
    ELSE
        [err |-> "", log |-> <<Ran("bash", hookName, TRUE)>>, warnings |-> <<>>]

\* info.Mode()&0111 == 0 is the file that nobody may execute
IsExecutableByOwner(mode) == "u+x" \in mode

IsExecutable(mode) == mode \cap ExecBits # {}

\* what RunHook finds at the hook path
HookStateOf(file) ==
    IF file.stat = "no" THEN "missing"
    ELSE IF ~IsExecutable(file.mode) THEN "nonexec"
    ELSE IF file.exit = 0 THEN "pass"
    ELSE "fail"

\* the reserved prefix and the variable of each context field
EnvPrefix == <<"M", "P", "_">>
EnvKey ==
    [PieceName    |-> EnvPrefix \o <<"P", "I", "E", "C", "E", "_", "N", "A", "M", "E">>,
     WorktreePath |-> EnvPrefix \o <<"W", "O", "R", "K", "T", "R", "E", "E", "_", "P", "A", "T", "H">>,
     RepoRoot     |-> EnvPrefix \o <<"R", "E", "P", "O", "_", "R", "O", "O", "T">>,
     MainBranch   |-> EnvPrefix \o <<"M", "A", "I", "N", "_", "B", "R", "A", "N", "C", "H">>,
     SessionName  |-> EnvPrefix \o <<"S", "E", "S", "S", "I", "O", "N", "_", "N", "A", "M", "E">>]

\* fmt.Sprintf("KEY=%s", value)
EnvEntry(key, value) == key \o <<"=">> \o value

\* hasEnvPrefix: the entry has a "=" and the text before the first one starts
\* with the prefix; i counts from 0 in the code, from 1 here
hasEnvPrefix(envVar, prefix) ==
    \E i \in 1..Len(envVar) :
        /\ envVar[i] = "="
        /\ \A j \in 1..(i - 1) : envVar[j] # "="
        /\ i - 1 >= Len(prefix)
        /\ SubSeq(envVar, 1, Len(prefix)) = prefix

\* an environment handed on as it is
keepEnv(env, prefix) == env

\* filterEnv: the entries without the prefix, in their order
filterEnv(env, prefix) == SelectSeq(env, LAMBDA e : ~hasEnvPrefix(e, prefix))

RECURSIVE AppendFields(_, _, _)
AppendFields(env, ctx, i) ==
    IF i > Len(ContextFields) THEN env
    ELSE LET f == ContextFields[i]
         IN AppendFields(IF ctx[f] # <<>> THEN Append(env, EnvEntry(EnvKey[f], ctx[f])) ELSE env,
                         ctx, i + 1)

\* buildEnv: the ambient environment without MP_ variables, then one entry
\* for each non-empty field of the context
buildEnv(ctx, environ) == AppendFields(filterEnv(environ, EnvPrefix), ctx, 1)

\* HookRunner.RunHook on a hook file: a Stat error other than "does not
\* exist" is returned; env is what bash is started with, if it is started
RunHookFile(hookName, file, ctx, environ) ==
    IF file.stat = "error" THEN
        [err |-> "failed to stat hook", log |-> <<>>, warnings |-> <<>>, env |-> <<>>]
    ELSE LET r == RunHook(hookName, HookStateOf(file))
         IN [err |-> r.err, log |-> r.log, warnings |-> r.warnings,
             env |-> IF r.log # <<>> THEN buildEnv(ctx, environ) ELSE <<>>]

\* ------------------------------------------------------------------------
\* Status
\* ------------------------------------------------------------------------
\* a working directory is a piece worktree (its name) or the main repository
MainDir == "repo"

\* where the main repository can live
RepoDirs == {RepoRoot, <<"worktrees", "repo">>}
\* the pieces root (XDG data directory)
PiecesRoot == <<"data", "pieces">>
NoBranch == ""

\* a directory that is in no git repository
OutsideDir == "tmp"

\* git runs in workDir only if the directory exists and is inside a repository
InRepo(w, workDir) ==
    \/ workDir = MainDir
    \/ workDir \in w.worktrees

\* filepath.Dir and filepath.Base of an absolute path
Dir(path) == IF path = <<>> THEN <<>> ELSE SubSeq(path, 1, Len(path) - 1)
Base(path) == IF path = <<>> THEN "/" ELSE path[Len(path)]

RECURSIVE CleanAbs(_)
\* filepath.Clean of an absolute path: ".." drops the segment before it and
\* is itself dropped at the root
CleanAbs(segs) ==
    IF segs = <<>> THEN <<>>
    ELSE LET c == CleanAbs(SubSeq(segs, 1, Len(segs) - 1))
             x == segs[Len(segs)]
         IN  IF x = ".." THEN (IF c = <<>> THEN <<>> ELSE SubSeq(c, 1, Len(c) - 1))
             ELSE Append(c, x)

\* the path segments of a piece name
NameSegments(name) ==
    IF name = NestedPieceName THEN <<"wip", IssuePieceName>>
    ELSE IF name = EscapingPieceName THEN <<"..", IssuePieceName>>
    ELSE <<name>>

\* filepath.Join(piecesDir, pieceName): the elements joined, then cleaned
PiecePaths == [n \in Names |-> CleanAbs(PiecesRoot \o NameSegments(n))]
PiecePath(name) ==
    IF name \in Names THEN PiecePaths[name]
    ELSE CleanAbs(PiecesRoot \o NameSegments(name))

\* the directory a working directory token stands for
WorkPath(w, workDir) == IF workDir \in Names THEN PiecePath(workDir) ELSE w.repoDir

\* `git rev-parse --git-dir`, made absolute: <repo>/.git in the main
\* repository, <repo>/.git/worktrees/<directory> in a worktree
RevParseGitDir(w, workDir) ==
    IF workDir \in Names THEN w.repoDir \o <<".git", "worktrees", Base(PiecePath(workDir))>>
    ELSE w.repoDir \o <<".git">>

\* the worktree is an entry of the pieces directory itself
IsEntry(name) == Dir(PiecePath(name)) = PiecesRoot

\* the worktree lies in the pieces directory, at any depth
InPiecesDir(name) ==
    /\ Len(PiecePath(name)) > Len(PiecesRoot)
    /\ SubSeq(PiecePath(name), 1, Len(PiecesRoot)) = PiecesRoot

\* the branches checked out in the piece worktrees
CheckedOut(w) == {w.branchOf[n] : n \in w.worktrees}

\* the path segments whose spelling contains "worktrees"
SpelledWithWorktrees == {"worktrees"}

\* Git.IsWorktree: strings.Contains(absGitDir, "worktrees"), or the parent
\* directory of the git-dir is named "worktrees"
IsWorktree(gitDir) ==
    \/ \E i \in 1..Len(gitDir) : gitDir[i] \in SpelledWithWorktrees
    \/ Base(Dir(gitDir)) = "worktrees"

\* Git.GetMainRepoRoot: three levels above the git-dir of a worktree,
\* otherwise the top level of the repository
GetMainRepoRoot(w, workDir) ==
    LET gitDir == RevParseGitDir(w, workDir)
    IN  IF IsWorktree(gitDir) THEN Dir(Dir(Dir(gitDir))) ELSE WorkPath(w, workDir)

\* a Status that passes the error of git rev-parse on
NotInGitRepoError(log) ==
    [InPiece |-> FALSE, PieceName |-> "", WorktreePath |-> NoPath, RepoRoot |-> NoPath,
     err |-> "not in a git repository", log |-> log]

\* Status when git rev-parse --git-dir fails: "Not in a git repo", no error
NotInGitRepo(log) ==
    [InPiece |-> FALSE, PieceName |-> "", WorktreePath |-> NoPath, RepoRoot |-> NoPath,
     err |-> "", log |-> log]

Status(w, workDir, F) ==
    LET gitDirOk == InRepo(w, workDir) /\ ~Fails(F, "git rev-parse --git-dir", workDir)
        topOk == ~Fails(F, "git rev-parse --show-toplevel", workDir)
    IN  IF ~gitDirOk THEN
            NotInGitRepo(<<Ran("git rev-parse --git-dir", workDir, FALSE)>>)
        ELSE IF ~IsWorktree(RevParseGitDir(w, workDir)) THEN
            [InPiece |-> FALSE, PieceName |-> "", WorktreePath |-> NoPath,
             RepoRoot |-> IF topOk THEN WorkPath(w, workDir) ELSE NoPath,
             err |-> "",
             log |-> <<Ran("git rev-parse --git-dir", workDir, TRUE),
                       Ran("git rev-parse --show-toplevel", workDir, topOk)>>]
        ELSE
            [InPiece |-> TRUE, PieceName |-> Base(WorkPath(w, workDir)),
             WorktreePath |-> WorkPath(w, workDir),
             RepoRoot |-> GetMainRepoRoot(w, workDir),
             err |-> "",
             log |-> <<Ran("git rev-parse --git-dir", workDir, TRUE),
                       Ran("git rev-parse --show-toplevel", workDir, topOk),
                       Ran("git rev-parse --git-dir", workDir, TRUE)>>]

\* ------------------------------------------------------------------------
\* Merge detection
\* ------------------------------------------------------------------------
\* a listing that also takes a branch deleted on the remote for merged
ListedAsMergedOrGone(w, branch) == w.own[branch] = 0 \/ branch \notin w.remote

\* Git.IsBranchMerged: the branch is listed by `git branch --merged main`
\* exactly when its tip is reachable from main
ListedAsMerged(w, branch) == w.own[branch] = 0

\* a fault that makes a command exit with a status of its own
ExitsWith(c, a, s) == [cmd |-> c, arg |-> a, exit |-> s]

\* a command that was run, whether its port returned no error, and the
\* status it exited with
RanExit(c, a, ok, exit) == [cmd |-> c, arg |-> a, ok |-> ok, exit |-> exit]

\* the statuses with which `git merge-base --is-ancestor` fails: 128 is
\* git's "fatal:" status (not a valid object name, not a repository)
FailureExits == {2, 128}

\* the exit status of `git merge-base --is-ancestor <tip> <main>`: 0 for an
\* ancestor, 1 for a non-ancestor, the status of the fault if one is set,
\* -1 when the process did not exit (not started, killed by a signal)
MergeBaseExit(w, branch, F) ==
    LET exits == {s \in FailureExits :
                    \/ ExitsWith("git merge-base --is-ancestor", branch, s) \in F
                    \/ ExitsWith("git merge-base --is-ancestor", AnyArg, s) \in F}
    IN  IF Fails(F, "git merge-base --is-ancestor", branch) THEN -1
        ELSE IF exits # {} THEN CHOOSE s \in exits : \A t \in exits : s <= t
        ELSE IF w.own[branch] = 0 THEN 0
        ELSE 1

DecimalDigits == <<"0", "1", "2", "3", "4", "5", "6", "7", "8", "9">>

RECURSIVE Decimal(_)
Decimal(n) ==
    IF n < 10 THEN <<DecimalDigits[n + 1]>>
    ELSE Decimal(n \div 10) \o <<DecimalDigits[(n % 10) + 1]>>

\* err.Error() of the command, character by character after the words
\* "exit status ": empty when it exited 0
ErrorText(exit) ==
    IF exit = 0 THEN <<>>
    ELSE IF exit < 0 THEN <<"signal: killed">>
    ELSE <<"exit status ">> \o Decimal(exit)

\* strings.Contains
Contains(text, substr) ==
    \E i \in 0..(Len(text) - Len(substr)) : SubSeq(text, i + 1, i + Len(substr)) = substr

\* Git.IsCommitInBranch: no error of the command is "ancestor"; an error
\* whose text contains "exit status 1" is "not an ancestor" without error;
\* any other error is returned
IsCommitInBranch(w, branch, F) ==
    LET exit == MergeBaseExit(w, branch, F)
        err == ErrorText(exit)
    IN  IF err = <<>> THEN
            [merged |-> TRUE, err |-> "",
             log |-> <<RanExit("git merge-base --is-ancestor", branch, TRUE, exit)>>]
        ELSE IF Contains(err, <<"exit status ", "1">>) THEN
            [merged |-> FALSE, err |-> "",
             log |-> <<RanExit("git merge-base --is-ancestor", branch, TRUE, exit)>>]
        ELSE
            [merged |-> FALSE, err |-> "failed to check commit ancestry",
             log |-> <<RanExit("git merge-base --is-ancestor", branch, FALSE, exit)>>]

\* a commit check that takes an unreadable branch tip for "not merged"
checkCommitMergedSwallowing(w, branch, F) ==
    IF Fails(F, "git rev-parse", branch) THEN
        [merged |-> FALSE, err |-> "",
         log |-> <<Ran("git rev-parse", branch, FALSE)>>]
    ELSE
        LET r == IsCommitInBranch(w, branch, F)
        IN  [merged |-> r.merged, err |-> "",
             log |-> <<Ran("git rev-parse", branch, TRUE)>> \o r.log]

\* checkCommitMerged: the tip of the branch, then its ancestry test
checkCommitMerged(w, branch, F) ==
    IF Fails(F, "git rev-parse", branch) THEN
        [merged |-> FALSE, err |-> "failed to get branch commit",
         log |-> <<Ran("git rev-parse", branch, FALSE)>>]
    ELSE
        LET r == IsCommitInBranch(w, branch, F)
        IN  [merged |-> r.merged, err |-> r.err,
             log |-> <<Ran("git rev-parse", branch, TRUE)>> \o r.log]

\* a check that takes a piece without readable metadata for merged
checkPRMergeStatusAssumingMerged(w, piece, F) ==
    IF piece \notin w.prMeta \/ Fails(F, "fs read pr-metadata.json", piece) THEN
        [merged |-> TRUE, prNumber |-> 0, err |-> "",
         log |-> <<Ran("fs read pr-metadata.json", piece, FALSE)>>]
    ELSE
        [merged |-> w.forgePR[piece] = "merged" /\ ~Fails(F, "gh pr view", piece),
         prNumber |-> PRNumber(piece), err |-> "",
         log |-> <<Ran("fs read pr-metadata.json", piece, TRUE),
                   Ran("gh pr view", piece, ~Fails(F, "gh pr view", piece))>>]

\* checkPRMergeStatus: needs pr-metadata.json in the worktree, then asks
\* `gh pr view <n> --json mergedAt`
checkPRMergeStatus(w, piece, F) ==
    IF piece \notin w.prMeta \/ Fails(F, "fs read pr-metadata.json", piece) THEN
        [merged |-> FALSE, prNumber |-> 0, err |-> "no PR metadata found",
         log |-> <<Ran("fs read pr-metadata.json", piece, FALSE)>>]
    ELSE IF Fails(F, "gh pr view", piece) THEN
        [merged |-> FALSE, prNumber |-> PRNumber(piece), err |-> "failed to check PR status",
         log |-> <<Ran("fs read pr-metadata.json", piece, TRUE),
                   Ran("gh pr view", piece, FALSE)>>]
    ELSE
        [merged |-> w.forgePR[piece] = "merged", prNumber |-> PRNumber(piece), err |-> "",
         log |-> <<Ran("fs read pr-metadata.json", piece, TRUE),
                   Ran("gh pr view", piece, TRUE)>>]

\* IsBranchMerged(repoRoot = the piece's worktree, branchName, mainBranch)
IsBranchMerged(w, branch, F) ==
    LET lsOk == ~Fails(F, "git ls-remote", branch)
        exists == lsOk /\ branch \in w.remote
        log0 == <<Ran("git ls-remote", branch, lsOk)>>
        warn0 == IF lsOk THEN <<>> ELSE <<"Failed to check remote branch">>
        st0 == [NoStatus EXCEPT !.ExistsOnRemote = exists]
        pr == checkPRMergeStatus(w, branch, F)
        log1 == log0 \o pr.log
        gitOk == ~Fails(F, "git branch --merged", branch)
        log2 == log1 \o <<Ran("git branch --merged", branch, gitOk)>>
        warn2 == IF gitOk THEN warn0 ELSE warn0 \o <<"git branch --merged check failed">>
        cm == checkCommitMerged(w, branch, F)
        log3 == log2 \o cm.log
    IN  IF pr.err = "" /\ pr.merged THEN
            [status |-> [st0 EXCEPT !.IsMerged = TRUE, !.Method = "pr", !.PRNumber = pr.prNumber],
             err |-> "", log |-> log1, warnings |-> warn0]
        ELSE IF gitOk /\ ListedAsMerged(w, branch) THEN
            [status |-> [st0 EXCEPT !.IsMerged = TRUE, !.Method = "git"],
             err |-> "", log |-> log2, warnings |-> warn2]
        ELSE IF cm.err # "" THEN
            [status |-> st0, err |-> "failed to check commit history",
             log |-> log3, warnings |-> warn2]
        ELSE IF cm.merged THEN
            [status |-> [st0 EXCEPT !.IsMerged = TRUE, !.Method = "commit"],
             err |-> "", log |-> log3, warnings |-> warn2]
        ELSE
            [status |-> st0, err |-> "", log |-> log3, warnings |-> warn2]

\* ------------------------------------------------------------------------
\* UpdatePiece, MergePiece
\* ------------------------------------------------------------------------
\* Git.CurrentBranch: the branch checked out in the working directory
CurrentBranch(w, workDir, F) ==
    IF Fails(F, "git rev-parse --abbrev-ref HEAD", workDir) THEN
        [branch |-> "", err |-> "failed to get current branch",
         log |-> <<Ran("git rev-parse --abbrev-ref HEAD", workDir, FALSE)>>]
    ELSE
        [branch |-> IF workDir \in Names THEN w.branchOf[workDir] ELSE w.repoBranch,
         err |-> "",
         log |-> <<Ran("git rev-parse --abbrev-ref HEAD", workDir, TRUE)>>]

\* an ahead test that is off by one commit
CountIsMoreThanOne(count) == count \notin {"0", "1"}

\* an ahead check that counts the commits even when no merge base was found
IsMainAheadIgnoringBase(w, pieceBranch, F) ==
    LET baseOk == ~Fails(F, "git merge-base", pieceBranch)
        countOk == ~Fails(F, "git rev-list --count", pieceBranch)
    IN  [isAhead |-> countOk /\ w.behind[pieceBranch] > 0,
         err |-> IF countOk THEN "" ELSE "failed to count commits",
         log |-> <<Ran("git merge-base", pieceBranch, baseOk),
                   Ran("git rev-list --count", pieceBranch, countOk)>>]

\* the test IsMainAhead applies to the output of `git rev-list --count`
CountIsAhead(count) == count # "0"

\* Git.IsMainAhead: merge-base, then rev-list --count <base>..<main>
IsMainAhead(w, pieceBranch, F) ==
    IF Fails(F, "git merge-base", pieceBranch) THEN
        [isAhead |-> FALSE, err |-> "failed to find merge-base",
         log |-> <<Ran("git merge-base", pieceBranch, FALSE)>>]
    ELSE IF Fails(F, "git rev-list --count", pieceBranch) THEN
        [isAhead |-> FALSE, err |-> "failed to count commits",
         log |-> <<Ran("git merge-base", pieceBranch, TRUE),
                   Ran("git rev-list --count", pieceBranch, FALSE)>>]
    ELSE
        [isAhead |-> CountIsAhead(ToString(w.behind[pieceBranch])), err |-> "",
         log |-> <<Ran("git merge-base", pieceBranch, TRUE),
                   Ran("git rev-list --count", pieceBranch, TRUE)>>]

\* Git.GetCommitMessages: the non-empty lines of `git log --format=%s
\* <main>..<piece>`, one per commit that has a subject
GetCommitMessages(w, pieceBranch) ==
    [i \in 1..w.subjects[pieceBranch] |-> "subject-" \o ToString(i)]

\* a message that carries the "Squashed commits:" heading even without subjects
buildSquashCommitMessageWithHeading(pieceName, commitMsgs) ==
    <<"feat: " \o pieceName, "", "Squashed commits:">> \o
    [i \in 1..Len(commitMsgs) |-> "- " \o commitMsgs[i]]

buildSquashCommitMessage(pieceName, commitMsgs) ==
    <<"feat: " \o pieceName>> \o
    (IF Len(commitMsgs) > 0
     THEN <<"", "Squashed commits:">> \o [i \in 1..Len(commitMsgs) |-> "- " \o commitMsgs[i]]
     ELSE <<>>)

\* `git merge <main>` in the piece worktree: the branch now contains main;
\* a true merge adds a merge commit of its own, with a subject
AfterMerge(w, branch) ==
    [w EXCEPT !.behind[branch] = 0,
              !.own[branch] = IF w.own[branch] > 0 /\ w.behind[branch] > 0
                              THEN Min(w.own[branch] + 1, MaxCommits) ELSE w.own[branch],
              !.subjects[branch] = IF w.own[branch] > 0 /\ w.behind[branch] > 0
                                   THEN Min(w.subjects[branch] + 1, MaxCommits)
                                   ELSE w.subjects[branch]]

\* `git commit` of a squash on main: a commit no piece branch contains
AfterSquashCommit(w) ==
    [w EXCEPT !.behind = [n \in Names |->
                            IF n \in w.worktrees THEN Min(w.behind[n] + 1, MaxCommits)
                            ELSE w.behind[n]]]

\* an after-hook failure that puts the repository back as it was
RollBackOnAfterHookFailure(before, after) == before

\* what UpdatePiece and MergePiece leave when the after-hook fails: the
\* error is returned and nothing is undone
KeepOnAfterHookFailure(before, after) == after

Return(w, err, log, warnings) ==
    [w |-> w, err |-> err, log |-> log, warnings |-> warnings, commitMsg |-> <<>>]

UpdatePiece(w, workDir, H, F) ==
    LET st == Status(w, workDir, F)
        cb == CurrentBranch(w, workDir, F)
        log1 == st.log \o cb.log
        before == RunHook(HookBeforePieceUpdate, H[HookBeforePieceUpdate])
        log2 == log1 \o before.log
        mergeOk == ~Fails(F, "git merge", workDir)
        log3 == log2 \o <<Ran("git merge", workDir, mergeOk)>>
        after == RunHook(HookAfterPieceUpdate, H[HookAfterPieceUpdate])
        log4 == log3 \o after.log
        \* in the main repository `git merge <main>` changes nothing the model tracks
        w1 == IF workDir \in Names THEN AfterMerge(w, w.branchOf[workDir]) ELSE w
    IN  IF ~st.InPiece THEN Return(w, "not in a piece worktree", st.log, <<>>)
        ELSE IF cb.err # "" THEN Return(w, cb.err, log1, <<>>)
        ELSE IF before.err # "" THEN
            Return(w, "before-piece-update hook failed", log2, before.warnings)
        ELSE IF ~mergeOk THEN Return(w, "failed to merge branch", log3, before.warnings)
        ELSE IF after.err # "" THEN
            Return(KeepOnAfterHookFailure(w, w1), "after-piece-update hook failed", log4,
                   before.warnings \o after.warnings)
        ELSE Return(w1, "", log4, before.warnings \o after.warnings)

\* MergePiece up to the ahead check: err is "" when main is not ahead and
\* the call goes on to read the commit messages
MergePieceUntilCheck(w, workDir, H, F) ==
    LET st == Status(w, workDir, F)
        cb == CurrentBranch(w, workDir, F)
        pieceBranch == cb.branch
        \* GetMainRepoRoot: a second rev-parse --git-dir
        log1 == st.log \o cb.log \o <<Ran("git rev-parse --git-dir", workDir, TRUE)>>
        before == RunHook(HookBeforePieceMerge, H[HookBeforePieceMerge])
        log2 == log1 \o before.log
        \* git fails in a directory that is not a repository
        mainRepoRoot == GetMainRepoRoot(w, workDir)
        ahead == IsMainAhead(w, pieceBranch,
                             IF mainRepoRoot = w.repoDir THEN F
                             ELSE F \cup {Cmd("git merge-base", AnyArg)})
        log3 == log2 \o ahead.log
    IN  IF ~st.InPiece THEN Return(w, "not in a piece worktree", st.log, <<>>)
        ELSE IF cb.err # "" THEN Return(w, cb.err, st.log \o cb.log, <<>>)
        ELSE IF before.err # "" THEN
            Return(w, "before-piece-merge hook failed", log2, before.warnings)
        ELSE IF ahead.err # "" THEN
            Return(w, "failed to check if main is ahead", log3, before.warnings)
        ELSE IF ahead.isAhead THEN
            Return(w, "cannot merge: main branch has commits not in piece worktree",
                   log3, before.warnings)
        ELSE Return(w, "", log3, before.warnings)

\* MergePiece after the ahead check, in the repository as it is by then:
\* pieceName and pieceBranch are what Status and CurrentBranch gave the
\* call, log3 and warnings what it ran and warned of so far
MergePieceFromCheck(w, pieceName, pieceBranch, log3, warnings, H, F) ==
    LET logOk == ~Fails(F, "git log", pieceBranch)
        log4 == log3 \o <<Ran("git log", pieceBranch, logOk)>>
        commitMsg == buildSquashCommitMessage(pieceName, GetCommitMessages(w, pieceBranch))
        checkoutOk == ~Fails(F, "git checkout", MainBranch)
        log5 == log4 \o <<Ran("git checkout", MainBranch, checkoutOk)>>
        w5 == [w EXCEPT !.repoBranch = MainBranch]
        squashOk == ~Fails(F, "git merge --squash", pieceBranch)
        log6 == log5 \o <<Ran("git merge --squash", pieceBranch, squashOk)>>
        \* nothing is staged, and git commit fails, when the piece has no commit of its own
        commitOk == ~Fails(F, "git commit", pieceBranch) /\ w.own[pieceBranch] > 0
        log7 == log6 \o <<Ran("git commit", pieceBranch, commitOk)>>
        w7 == AfterSquashCommit(w5)
        after == RunHook(HookAfterPieceMerge, H[HookAfterPieceMerge])
        log8 == log7 \o after.log
        warn == warnings \o after.warnings
    IN  IF ~logOk THEN Return(w, "failed to get commit messages", log4, warnings)
        ELSE IF ~checkoutOk THEN Return(w, "failed to checkout main branch", log5, warnings)
        ELSE IF ~squashOk THEN Return(w5, "failed to squash merge", log6, warnings)
        ELSE IF ~commitOk THEN Return(w5, "failed to commit squashed changes", log7, warnings)
        ELSE IF after.err # "" THEN
            [Return(KeepOnAfterHookFailure(w, w7), "after-piece-merge hook failed", log8, warn)
                EXCEPT !.commitMsg = commitMsg]
        ELSE [Return(w7, "", log8, warn) EXCEPT !.commitMsg = commitMsg]

\* MergePiece in one invocation that nothing interleaves with
MergePiece(w, workDir, H, F) ==
    LET checked == MergePieceUntilCheck(w, workDir, H, F)
    IN  IF checked.err # "" THEN checked
        ELSE MergePieceFromCheck(w, Status(w, workDir, F).PieceName,
                                 CurrentBranch(w, workDir, F).branch,
                                 checked.log, checked.warnings, H, F)

\* ------------------------------------------------------------------------
\* CreatePiece
\* ------------------------------------------------------------------------
\* a test that looks for the tmux session of the name
SessionExists(w, name) == name \in w.sessions

\* FS.Stat of <piecesDir>/<name>
PieceExists(w, name) == name \in w.worktrees

\* the test CreatePiece makes of a name given with --name before it
\* creates anything: FS.Stat of the piece path finds something
NameTaken(w, name) == PieceExists(w, name)

RECURSIVE FirstFreeIn(_, _, _)
\* where the loop of GeneratePieceName stops: the least counter in lo..hi
\* whose candidate FS.Stat does not find, hi + 1 when it finds them all;
\* the candidates are looked at in counter order, half by half
FirstFreeIn(w, lo, hi) ==
    IF lo > hi THEN hi + 1
    ELSE IF lo = hi THEN (IF PieceExists(w, GenName(lo)) THEN hi + 1 ELSE lo)
    ELSE IF \E c \in lo..((lo + hi) \div 2) : ~PieceExists(w, GenName(c))
         THEN FirstFreeIn(w, lo, (lo + hi) \div 2)
         ELSE FirstFreeIn(w, ((lo + hi) \div 2) + 1, hi)

\* the outcome of the loop that stopped at counter c, with limit as the
\* last counter it may try; stats counts its FS.Stat calls
GenResult(c, limit) ==
    IF c <= limit
    THEN [name |-> GenName(c), err |-> "", stats |-> c + 1]
    ELSE [name |-> "", err |-> "too many pieces with similar names", stats |-> limit + 1]

\* a loop whose safety limit is reached one candidate sooner
GenLoopStoppingEarly(w, counter) ==
    GenResult(FirstFreeIn(w, counter, GenLimit - 1), GenLimit - 1)

\* the loop of GeneratePieceName from a counter value on: candidates are
\* tried while counter <= GenLimit
GenLoop(w, counter) ==
    GenResult(FirstFreeIn(w, counter, GenLimit), GenLimit)

GeneratePieceName(w) == GenLoop(w, 0)

\* `git worktree add <path>` without a branch: the branch of the new
\* worktree is named after the last element of the path
BranchAdded(name) == Base(PiecePath(name))

\* git refuses a worktree on a branch that is checked out elsewhere
BranchFree(w, branch) == branch \notin CheckedOut(w) \cup {w.repoBranch}

\* `git worktree add <piecesDir>/<name>`: a new worktree on a branch
\* starting at the repository's HEAD
AddWorktree(w, name) ==
    LET branch == BranchAdded(name)
    IN  [w EXCEPT !.worktrees = @ \cup {name}, !.own[branch] = 0, !.behind[branch] = 0,
                  !.branchOf[name] = branch, !.subjects[branch] = 0]

\* `git worktree remove`: the directory and the files in it are gone; the
\* model follows a branch and its pull request only while the worktree exists
RemoveWorktree(w, name) ==
    LET branch == w.branchOf[name]
    IN  [w EXCEPT !.worktrees = @ \ {name}, !.prMeta = @ \ {name}, !.remote = @ \ {branch},
                  !.marker[name] = NoPath, !.own[branch] = 0, !.behind[branch] = 0,
                  !.forgePR[branch] = "none", !.branchOf[name] = NoBranch,
                  !.subjects[branch] = 0]

\* a cleanup that kills the session and forgets the worktree
cleanupPieceSessionOnly(w, name, tmuxCreated, F) ==
    LET killOk == ~Fails(F, "tmux kill-session", name)
    IN  [w |-> IF tmuxCreated /\ killOk THEN [w EXCEPT !.sessions = @ \ {name}] ELSE w,
         log |-> IF tmuxCreated THEN <<Ran("tmux kill-session", name, killOk)>> ELSE <<>>,
         warnings |-> IF tmuxCreated /\ ~killOk THEN <<"Failed to cleanup tmux session">>
                      ELSE <<>>]

\* a cleanup that kills the session of the name whoever created it
cleanupPieceKillingAnyway(w, name, tmuxCreated, F) ==
    LET killOk == ~Fails(F, "tmux kill-session", name)
        w1 == IF killOk THEN [w EXCEPT !.sessions = @ \ {name}] ELSE w
        rmOk == ~Fails(F, "git worktree remove", name)
    IN  [w |-> IF rmOk THEN RemoveWorktree(w1, name) ELSE w1,
         log |-> <<Ran("tmux kill-session", name, killOk),
                   Ran("git worktree remove", name, rmOk)>>,
         warnings |-> (IF killOk THEN <<>> ELSE <<"Failed to cleanup tmux session">>)
                      \o (IF rmOk THEN <<>> ELSE <<"Failed to cleanup worktree">>)]

\* cleanupPiece: kill the session only if this call created it, then remove
\* the worktree; failures are warnings
cleanupPiece(w, name, tmuxCreated, F) ==
    LET killOk == ~Fails(F, "tmux kill-session", name)
        w1 == IF tmuxCreated /\ killOk THEN [w EXCEPT !.sessions = @ \ {name}] ELSE w
        log1 == IF tmuxCreated THEN <<Ran("tmux kill-session", name, killOk)>> ELSE <<>>
        warn1 == IF tmuxCreated /\ ~killOk THEN <<"Failed to cleanup tmux session">> ELSE <<>>
        rmOk == ~Fails(F, "git worktree remove", name)
        w2 == IF rmOk THEN RemoveWorktree(w1, name) ELSE w1
    IN  [w |-> w2,
         log |-> log1 \o <<Ran("git worktree remove", name, rmOk)>>,
         warnings |-> warn1 \o (IF rmOk THEN <<>> ELSE <<"Failed to cleanup worktree">>)]

\* a failure that is dropped without a message
Silent(ok, warnings, text) == warnings

\* "log but don't fail the operation": a failure adds a warning
NonFatal(ok, warnings, text) == IF ok THEN warnings ELSE warnings \o <<text>>

CreatePiece(w, pieceName, hookState, F) ==
    LET topOk == ~Fails(F, "git rev-parse --show-toplevel", MainDir)
        log0 == <<Ran("git rev-parse --show-toplevel", MainDir, topOk)>>
        gen == IF pieceName = "" THEN GeneratePieceName(w) ELSE [name |-> pieceName, err |-> ""]
        name == gen.name
        mkdirOk == ~Fails(F, "fs mkdir pieces", "")
        addOk == ~Fails(F, "git worktree add", name) /\ BranchFree(w, BranchAdded(name))
        log1 == log0 \o <<Ran("git worktree add", name, addOk)>>
        w1 == AddWorktree(w, name)
        linkOk == ~Fails(F, "fs symlink", name)
        warn1 == NonFatal(linkOk, <<>>, "Failed to create symlink")
        \* tmux refuses a session name that is already taken
        tmuxCreated == ~Fails(F, "tmux new-session", name) /\ name \notin w.sessions
        w2 == IF tmuxCreated THEN [w1 EXCEPT !.sessions = @ \cup {name}] ELSE w1
        log2 == log1 \o <<Ran("fs symlink", name, linkOk),
                          Ran("tmux new-session", name, tmuxCreated)>>
        warn2 == NonFatal(tmuxCreated, warn1, "Failed to create tmux session")
        hook == RunHook(HookOnPieceCreate, hookState)
        log3 == log2 \o hook.log
        warn3 == warn2 \o hook.warnings
        undo == cleanupPiece(w2, name, tmuxCreated, F)
    IN  IF ~topOk THEN Return(w, "not in a git repository", log0, <<>>)
        ELSE IF gen.err # "" THEN Return(w, "failed to generate piece name", log0, <<>>)
        ELSE IF pieceName # "" /\ NameTaken(w, pieceName) THEN
            Return(w, "piece name already exists", log0, <<>>)
        ELSE IF ~mkdirOk THEN Return(w, "failed to create pieces directory", log0, <<>>)
        ELSE IF ~addOk THEN Return(w, "failed to create worktree", log1, <<>>)
        ELSE IF hook.err # "" THEN
            Return(undo.w, "on-piece-create hook failed", log3 \o undo.log, warn3 \o undo.warnings)
        ELSE Return(w2, "", log3, warn3)

\* ------------------------------------------------------------------------
\* Paths (filepath.Clean / Join / Rel on segment lists)
\* ------------------------------------------------------------------------
RECURSIVE CommonPrefixLen(_, _)
CommonPrefixLen(a, b) ==
    IF a = <<>> \/ b = <<>> \/ a[1] # b[1] THEN 0
    ELSE 1 + CommonPrefixLen(Tail(a), Tail(b))

\* filepath.Rel(base, targ) of two absolute paths
Rel(base, targ) ==
    LET b == CleanAbs(base)
        t == CleanAbs(targ)
        k == CommonPrefixLen(b, t)
        r == [i \in 1..(Len(b) - k) |-> ".."] \o SubSeq(t, k + 1, Len(t))
    IN  IF r = <<>> THEN <<".">> ELSE r

\* the segments whose spelling begins with two dots
DotDotSpelled == {".."}

\* a containment test that only knows the parent directory itself
IsDotDot(rel) == rel = <<"..">>

\* strings.HasPrefix(relPath, ".."): decided by the first segment's spelling
HasDotDotPrefix(rel) == rel[1] \in DotDotSpelled

\* FS.Stat follows the path as the operating system does
Exists(path) == CleanAbs(path) \in IssueFiles \cup Directories

\* an issue path as the caller gives it
IssuePaths ==
    {[abs |-> a, segs |-> s] :
        a \in BOOLEAN, s \in UNION {[1..n -> Segments] : n \in 1..MaxPathLen}}

\* ResolveIssuePath: an absolute path is returned as given, a relative one
\* is joined to the repository root and cleaned
ResolveIssuePath(issuePath) ==
    LET absPath == IF issuePath.abs THEN issuePath.segs
                   ELSE CleanAbs(RepoRoot \o issuePath.segs)
    IN  IF Exists(absPath) THEN [path |-> absPath, err |-> ""]
        ELSE [path |-> NoPath, err |-> "issue file not found"]

\* the containment test of CreatePieceFromIssue
OutsideIssuesDir(absIssuePath) ==
    HasDotDotPrefix(Rel(CleanAbs(RepoRoot \o IssuesDir), absIssuePath))

\* ExtractIssueName then SanitizePieceName: every issue file of the model
\* is titled "Add login"
SanitizedIssueName(absIssuePath) == IssuePieceName

\* ------------------------------------------------------------------------
\* CreatePieceFromIssue
\* ------------------------------------------------------------------------
\* ParseStatus: the status field of the frontmatter; todo when there is
\* none, an error for a word that is not a status
ParseStatus(field) ==
    IF field = MissingStatus THEN [status |-> DefaultStatus, err |-> ""]
    ELSE IF field \notin Statuses THEN [status |-> "", err |-> "invalid status"]
    ELSE [status |-> field, err |-> ""]

\* ------------------------------------------------------------------------
\* The issue file as text: a document is the sequence strings.Split(text,
\* "\n") gives, a line the sequence of its tokens (words, blanks, quotes,
\* the carriage return)
\* ------------------------------------------------------------------------
Delimiter == <<"---">>
DelimiterCR == <<"---", "\r">>
BlankLine == <<>>

\* unicode.IsSpace among the tokens
Whitespace == {" ", "\r"}
\* the cutset of strings.Trim(status, `"'`)
Quotes == {"\"", "'"}
\* (?i)status: the spellings of the field name
StatusKeys == {"status:", "Status:"}

RECURSIVE TrimLeft(_, _)
TrimLeft(line, cutset) ==
    IF line # <<>> /\ line[1] \in cutset THEN TrimLeft(Tail(line), cutset) ELSE line

RECURSIVE TrimRight(_, _)
TrimRight(line, cutset) ==
    IF line # <<>> /\ line[Len(line)] \in cutset
    THEN TrimRight(SubSeq(line, 1, Len(line) - 1), cutset)
    ELSE line

\* strings.Trim and strings.TrimSpace
Trim(line, cutset) == TrimRight(TrimLeft(line, cutset), cutset)
TrimSpace(line) == Trim(line, Whitespace)

\* statusRegex `(?i)^status:\s*(.+)$` on a line: the submatch, <<>> when
\* the line does not match
StatusSubmatch(line) ==
    IF line # <<>> /\ line[1] \in StatusKeys THEN TrimLeft(Tail(line), Whitespace) ELSE <<>>

statusRegexMatch(line) == StatusSubmatch(line) # <<>>

RECURSIVE Spell(_)
\* the string a sequence of tokens spells
Spell(tokens) == IF tokens = <<>> THEN "" ELSE tokens[1] \o Spell(Tail(tokens))

\* fmt.Sprintf("status: %s", status)
StatusLine(status) == <<"status:", " ", status>>

\* strings.HasPrefix(text, "---\n") || strings.HasPrefix(text, "---\r\n")
HasFrontmatterPrefix(doc) == Len(doc) >= 2 /\ doc[1] \in {Delimiter, DelimiterCR}

\* the lines after the first that are "---" once trimmed
ClosingLines(doc) == {i \in 2..Len(doc) : TrimSpace(doc[i]) = Delimiter}

\* endIdx of splitFrontmatter: the first of them
EndIdx(doc) == CHOOSE i \in ClosingLines(doc) : \A j \in ClosingLines(doc) : i <= j

\* strings.Join(lines, "\n") = "": no line, or one line without a token
JoinsToEmpty(lines) == lines = <<>> \/ lines = <<BlankLine>>

\* strings.Split(strings.Join(lines, "\n"), "\n"): no line comes back as
\* one empty line
SplitJoined(lines) == IF lines = <<>> THEN <<BlankLine>> ELSE lines

\* splitFrontmatter: the lines between the delimiters and the lines after
\* the closing one; not found when the text does not start with a
\* delimiter line or has no closing one.  The callers test frontmatter ==
\* "", which is also what delimiters with nothing between them give.
splitFrontmatter(doc) ==
    IF ~HasFrontmatterPrefix(doc) \/ ClosingLines(doc) = {}
    THEN [found |-> FALSE, frontmatter |-> <<>>, rest |-> doc]
    ELSE [found |-> ~JoinsToEmpty(SubSeq(doc, 2, EndIdx(doc) - 1)),
          frontmatter |-> SubSeq(doc, 2, EndIdx(doc) - 1),
          rest |-> SplitJoined(SubSeq(doc, EndIdx(doc) + 1, Len(doc)))]

\* the first line of the frontmatter that the regular expression matches
StatusIdx(lines) ==
    LET hits == {i \in 1..Len(lines) : statusRegexMatch(TrimSpace(lines[i]))}
    IN  IF hits = {} THEN 0 ELSE CHOOSE i \in hits : \A j \in hits : i <= j

\* extractStatusFromFrontmatter: the value of the first status line,
\* trimmed of blanks and quotes
extractStatusFromFrontmatter(doc) ==
    LET fm == splitFrontmatter(doc)
    IN  IF ~fm.found \/ StatusIdx(fm.frontmatter) = 0 THEN MissingStatus
        ELSE Spell(Trim(TrimSpace(StatusSubmatch(
                 TrimSpace(fm.frontmatter[StatusIdx(fm.frontmatter)]))), Quotes))

\* updateStatusInFrontmatter: replace the first status line, or add one
\* after the first line, or put a frontmatter before the text
updateStatusInFrontmatter(doc, status) ==
    LET fm == splitFrontmatter(doc)
        lines == fm.frontmatter
        i == StatusIdx(lines)
        newLines == IF i > 0 THEN [lines EXCEPT ![i] = StatusLine(status)]
                    ELSE <<lines[1], StatusLine(status)>> \o Tail(lines)
    IN  IF ~fm.found THEN <<Delimiter, StatusLine(status), Delimiter>> \o doc
        ELSE <<Delimiter>> \o newLines \o <<Delimiter>> \o fm.rest

\* ParseStatus of an issue file
ParseStatusFile(doc) == ParseStatus(extractStatusFromFrontmatter(doc))

\* UpdateStatus of an issue file: the text it writes
UpdateStatus(doc, status) ==
    IF status \notin Statuses THEN [doc |-> doc, err |-> "invalid status"]
    ELSE [doc |-> updateStatusInFrontmatter(doc, status), err |-> ""]

\* ------------------------------------------------------------------------
\* SanitizePieceName: a name is the sequence of its characters
\* ------------------------------------------------------------------------
Hyphen == "-"

\* unicode.ToLower
ToLower(r) == IF r = "A" THEN "a" ELSE r

\* the characters the loop replaces by a hyphen, and those it keeps; a
\* character of neither set (a symbol such as '+') is passed over
\* replaced: invalidChars and unicode.IsControl ('/', ':', tab),
\* unicode.IsSpace, '_' and '.', unicode.IsPunct other than the hyphen;
\* kept: unicode.IsLetter, unicode.IsDigit and the hyphen
Replaced == {"/", ":", "\t", " ", "_", ".", "!", "("}
Kept == {"a", "c", "e", "i", "p", "A", "1", Hyphen}

RECURSIVE SanitizeLoop(_, _, _)
\* the loop over the runes of the lowered name, with the builder so far
\* and prevWasSeparator
SanitizeLoop(name, result, prevWasSeparator) ==
    IF name = <<>> THEN result
    ELSE IF ToLower(name[1]) \in Replaced THEN
        SanitizeLoop(Tail(name),
                     IF prevWasSeparator THEN result ELSE Append(result, Hyphen), TRUE)
    ELSE IF ToLower(name[1]) \in Kept THEN
        SanitizeLoop(Tail(name), Append(result, ToLower(name[1])), FALSE)
    ELSE SanitizeLoop(Tail(name), result, prevWasSeparator)

\* a trim that takes one hyphen at most from either end
TrimOneHyphen(text) ==
    LET left == IF text # <<>> /\ text[1] = Hyphen THEN Tail(text) ELSE text
    IN  IF left # <<>> /\ left[Len(left)] = Hyphen
        THEN SubSeq(left, 1, Len(left) - 1) ELSE left

\* strings.Trim(result.String(), "-")
TrimHyphens(text) == Trim(text, {Hyphen})

RECURSIVE CollapseHyphens(_)
\* hyphenRegex.ReplaceAllString(resultStr, "-"): a run of hyphens becomes one
CollapseHyphens(text) ==
    IF Len(text) < 2 THEN text
    ELSE IF text[1] = Hyphen /\ text[2] = Hyphen THEN CollapseHyphens(Tail(text))
    ELSE <<text[1]>> \o CollapseHyphens(Tail(text))

\* the name of a piece whose sanitized name is empty
FallbackName == <<"p", "i", "e", "c", "e">>

SanitizePieceName(name) ==
    LET resultStr == CollapseHyphens(TrimHyphens(SanitizeLoop(name, <<>>, FALSE)))
    IN  IF resultStr = <<>> THEN FallbackName ELSE resultStr

\* an issue is started unless it is already in progress
StartUnlessInProgress(currentStatus) == currentStatus # StatusInProgress

\* an issue is started whatever its status
StartAlways(currentStatus) == TRUE

\* updateIssueStatusToInProgress: "Only update if status is todo"
ShouldStart(currentStatus) == currentStatus = StatusTodo

\* updateIssueStatusToInProgress: only a todo issue is advanced
updateIssueStatusToInProgress(w, file, piece, F) ==
    IF Fails(F, "fs read issue", piece) \/ ParseStatus(w.issueStatus[file]).err # "" THEN
        [w |-> w, log |-> <<>>, warnings |-> <<"Failed to read issue status">>]
    ELSE IF ~ShouldStart(ParseStatus(w.issueStatus[file]).status) THEN
        [w |-> w, log |-> <<>>, warnings |-> <<>>]
    ELSE IF Fails(F, "fs write issue", piece) THEN
        [w |-> w, log |-> <<Ran("fs write issue", piece, FALSE)>>,
         warnings |-> <<"Failed to update issue status">>]
    ELSE [w |-> [w EXCEPT !.issueStatus[file] = StatusInProgress],
          log |-> <<Ran("fs write issue", piece, TRUE)>>, warnings |-> <<>>]

\* a test that takes every outcome of CreatePiece for a created piece
AnyOutcome(cp) == TRUE

\* CreatePieceFromIssue goes on after CreatePiece only when it returned no error
PieceCreated(cp) == cp.err = ""

CreatePieceFromIssue(w, issuePath, hookState, F) ==
    LET topOk == ~Fails(F, "git rev-parse --show-toplevel", MainDir)
        log0 == <<Ran("git rev-parse --show-toplevel", MainDir, topOk)>>
        res == ResolveIssuePath(issuePath)
        file == CleanAbs(res.path)
        pieceName == SanitizedIssueName(res.path)
        cp == CreatePiece(w, pieceName, hookState, F)
        log1 == log0 \o cp.log
        relIssuePath == Rel(RepoRoot, res.path)
        markOk == ~Fails(F, "fs write current-issue.json", pieceName)
        w1 == IF markOk THEN [cp.w EXCEPT !.marker[pieceName] = relIssuePath] ELSE cp.w
        warn1 == IF markOk THEN cp.warnings
                 ELSE cp.warnings \o <<"Failed to write current issue marker">>
        upd == updateIssueStatusToInProgress(w1, file, pieceName, F)
    IN  IF ~topOk THEN Return(w, "not in a git repository", log0, <<>>)
        ELSE IF Fails(F, "fs read config", "") \/ ConfigProvider # "markdown" THEN
            Return(w, "failed to read monkeypuzzle config", log0, <<>>)
        ELSE IF res.err # "" THEN Return(w, res.err, log0, <<>>)
        ELSE IF OutsideIssuesDir(res.path) THEN
            Return(w, "issue file must be within the issues directory", log0, <<>>)
        ELSE IF file \notin IssueFiles \/ Fails(F, "fs read issue", pieceName) THEN
            Return(w, "failed to extract issue name", log0, <<>>)
        ELSE IF ~PieceCreated(cp) THEN Return(cp.w, cp.err, log1, cp.warnings)
        ELSE Return(upd.w, "", log1 \o upd.log, warn1 \o upd.warnings)

\* ------------------------------------------------------------------------
\* CleanupMergedPieces
\* ------------------------------------------------------------------------
\* an issue is finished unless it is already done
FinishUnlessDone(currentStatus) == currentStatus # StatusDone

\* updateIssueStatusToDone: "Only update if status is in-progress"
ShouldFinish(currentStatus) == currentStatus = StatusInProgress

\* updateIssueStatusToDone: only an in-progress issue is advanced; a missing
\* or unreadable issue file, or an invalid status, is the error
updateIssueStatusToDone(w, file, piece, F) ==
    IF file \notin IssueFiles \/ Fails(F, "fs read issue", piece) THEN
        [w |-> w, err |-> "failed to read issue status", log |-> <<>>]
    ELSE IF ParseStatus(w.issueStatus[file]).err # "" THEN
        [w |-> w, err |-> "failed to read issue status", log |-> <<>>]
    ELSE IF ~ShouldFinish(ParseStatus(w.issueStatus[file]).status) THEN
        [w |-> w, err |-> "", log |-> <<>>]
    ELSE IF Fails(F, "fs write issue", piece) THEN
        [w |-> w, err |-> "failed to update issue status",
         log |-> <<Ran("fs write issue", piece, FALSE)>>]
    ELSE [w |-> [w EXCEPT !.issueStatus[file] = StatusDone], err |-> "",
          log |-> <<Ran("fs write issue", piece, TRUE)>>]

\* a removal that does not report the failure of git worktree remove
removePieceHidingFailure(w, piece, F) ==
    LET killOk == piece \in w.sessions /\ ~Fails(F, "tmux kill-session", piece)
        w1 == IF killOk THEN [w EXCEPT !.sessions = @ \ {piece}] ELSE w
        rmOk == ~Fails(F, "git worktree remove", piece)
    IN  [w |-> IF rmOk THEN RemoveWorktree(w1, piece) ELSE w1,
         err |-> "",
         log |-> <<Ran("tmux kill-session", piece, killOk),
                   Ran("git worktree remove", piece, rmOk)>>]

\* removePiece: kill the session (errors ignored), then remove the worktree
removePiece(w, piece, F) ==
    LET killOk == piece \in w.sessions /\ ~Fails(F, "tmux kill-session", piece)
        w1 == IF killOk THEN [w EXCEPT !.sessions = @ \ {piece}] ELSE w
        rmOk == ~Fails(F, "git worktree remove", piece)
    IN  [w |-> IF rmOk THEN RemoveWorktree(w1, piece) ELSE w1,
         err |-> IF rmOk THEN "" ELSE "failed to remove worktree",
         log |-> <<Ran("tmux kill-session", piece, killOk),
                   Ran("git worktree remove", piece, rmOk)>>]

\* readCurrentIssueMarker: the issue path of the marker, if it can be read
MarkerIssuePath(w, piece, F) ==
    IF Fails(F, "fs read current-issue.json", piece) THEN NoPath ELSE w.marker[piece]

\* a loop that skips a piece only when the check failed
SkipOnErrorOnly(ms) == ms.err # ""

\* the loop goes on to the next entry when the merge check failed or did not
\* report the branch as merged
SkipPiece(ms) == ms.err # "" \/ ~ms.status.IsMerged

\* one iteration of the loop over the entries of the pieces directory;
\* acc carries the world, the results and what was run so far
CleanupOne(acc, piece, dryRun, F) ==
    LET w == acc.w
        \* git fails in <piecesDir>/<entry> when the entry is not a worktree
        cb == CurrentBranch(w, piece,
                            IF IsEntry(piece) THEN F
                            ELSE F \cup {Cmd("git rev-parse --abbrev-ref HEAD", AnyArg)})
        ms == IsBranchMerged(w, cb.branch, F)
        log2 == acc.log \o cb.log \o ms.log
        issuePath == MarkerIssuePath(w, piece, F)
        result == [PieceName |-> piece, IssuePath |-> issuePath, IssueUpdated |-> FALSE]
        warnMs == IF ms.err # "" THEN <<"Skipping: failed to check merge status">> ELSE <<>>
        acc3 == [acc EXCEPT !.log = log2, !.warnings = @ \o ms.warnings \o warnMs,
                            !.detected = IF ms.err = "" /\ ms.status.IsMerged
                                         THEN @ \cup {piece} ELSE @]
        rp == removePiece(w, piece, F)
        log4 == log2 \o rp.log
        upd == updateIssueStatusToDone(rp.w, CleanAbs(RepoRoot \o issuePath), piece, F)
    IN  IF cb.err # "" THEN
            [acc EXCEPT !.log = @ \o cb.log, !.warnings = @ \o <<"Skipping: failed to get branch">>]
        ELSE IF SkipPiece(ms) THEN acc3
        ELSE IF dryRun THEN
            [acc3 EXCEPT !.results = Append(@, result)]
        ELSE IF rp.err # "" THEN
            [acc3 EXCEPT !.w = rp.w, !.log = log4, !.warnings = @ \o <<"Failed to cleanup">>]
        ELSE IF issuePath = NoPath THEN
            [acc3 EXCEPT !.w = rp.w, !.log = log4, !.results = Append(@, result)]
        ELSE IF upd.err # "" THEN
            [acc3 EXCEPT !.w = upd.w, !.log = log4 \o upd.log,
                         !.warnings = @ \o <<"Failed to update issue status">>,
                         !.results = Append(@, result)]
        ELSE
            [acc3 EXCEPT !.w = upd.w, !.log = log4 \o upd.log,
                         !.results = Append(@, [result EXCEPT !.IssueUpdated = TRUE])]

RECURSIVE CleanupLoopStoppingAtFailure(_, _, _, _, _)
\* a loop that gives up at the first piece it could not remove
CleanupLoopStoppingAtFailure(acc, entries, i, dryRun, F) ==
    IF i > Len(entries) \/ (\E k \in 1..Len(acc.log) :
                               acc.log[k].cmd = "git worktree remove" /\ ~acc.log[k].ok)
    THEN acc
    ELSE CleanupLoopStoppingAtFailure(CleanupOne(acc, entries[i], dryRun, F),
                                      entries, i + 1, dryRun, F)

RECURSIVE CleanupLoop(_, _, _, _, _)
\* the loop over the directory entries, in name order
CleanupLoop(acc, entries, i, dryRun, F) ==
    IF i > Len(entries) THEN acc
    ELSE CleanupLoop(CleanupOne(acc, entries[i], dryRun, F), entries, i + 1, dryRun, F)

\* FS.ReadDir of the pieces directory: its sub-directories, sorted by name
DirEntries(w) == SelectSeq(NameOrder, LAMBDA n : n \in w.worktrees /\ InPiecesDir(n))

\* a cleanup that does not look at the dry-run option
CleanupMergedPiecesIgnoringDryRun(w, dryRun, F) ==
    CleanupLoop([w |-> w, log |-> <<>>, warnings |-> <<>>, results |-> <<>>,
                 detected |-> {}, err |-> ""],
                DirEntries(w), 1, FALSE, F)

CleanupMergedPieces(w, dryRun, F) ==
    CleanupLoop([w |-> w, log |-> <<>>, warnings |-> <<>>, results |-> <<>>,
                 detected |-> {}, err |-> ""],
                DirEntries(w), 1, dryRun, F)

\* ------------------------------------------------------------------------
\* CreatePR (internal/core/pr)
\* ------------------------------------------------------------------------
CreatePR(w, workDir, F) ==
    LET st == Status(w, workDir, F)
        cb == CurrentBranch(w, workDir, F)
        log1 == st.log \o cb.log
        pushOk == ~Fails(F, "git push", workDir)
        log2 == log1 \o <<Ran("git push", workDir, pushOk)>>
        w2 == [w EXCEPT !.remote = @ \cup {workDir}]
        \* gh refuses a second pull request for the same head branch
        prOk == ~Fails(F, "gh pr create", workDir) /\ w.forgePR[workDir] = "none"
        log3 == log2 \o <<Ran("gh pr create", workDir, prOk)>>
        w3 == [w2 EXCEPT !.forgePR[workDir] = "open"]
        metaOk == ~Fails(F, "fs write pr-metadata.json", workDir)
        w4 == IF metaOk THEN [w3 EXCEPT !.prMeta = @ \cup {workDir}] ELSE w3
    IN  IF ~st.InPiece THEN Return(w, "not in a piece worktree", st.log, <<>>)
        ELSE IF cb.err # "" THEN Return(w, cb.err, log1, <<>>)
        ELSE IF ~pushOk THEN Return(w, "failed to push branch", log2, <<>>)
        ELSE IF ~prOk THEN Return(w2, "failed to create PR", log3, <<>>)
        ELSE Return(w4, "", log3 \o <<Ran("fs write pr-metadata.json", workDir, metaOk)>>,
                    IF metaOk THEN <<>> ELSE <<"Failed to write PR metadata">>)

\* ------------------------------------------------------------------------
\* State machine
\* ------------------------------------------------------------------------
StatusCmds == {Cmd("git rev-parse --git-dir", AnyArg), Cmd("git rev-parse --show-toplevel", AnyArg)}
CreateCmds ==
    {Cmd(c, AnyArg) : c \in {"git rev-parse --show-toplevel", "fs mkdir pieces", "git worktree add",
                          "fs symlink", "tmux new-session", "tmux kill-session",
                          "git worktree remove"}}
FromIssueCmds ==
    {Cmd(c, AnyArg) : c \in {"git rev-parse --show-toplevel", "fs read config", "fs read issue",
                          "git worktree add", "fs write current-issue.json",
                          "fs write issue"}}
UpdateCmds == {Cmd(c, AnyArg) : c \in {"git rev-parse --abbrev-ref HEAD", "git merge"}}
MergeCmds ==
    {Cmd(c, AnyArg) : c \in {"git rev-parse --abbrev-ref HEAD", "git merge-base",
                          "git rev-list --count", "git log", "git checkout",
                          "git merge --squash", "git commit"}}
DetectCmdNames ==
    {"git ls-remote", "fs read pr-metadata.json", "gh pr view", "git branch --merged",
     "git rev-parse", "git merge-base --is-ancestor"}
AncestryCmds ==
    {Cmd("git merge-base --is-ancestor", AnyArg)}
        \cup {ExitsWith("git merge-base --is-ancestor", AnyArg, s) : s \in FailureExits}
DetectCmds == {Cmd(c, AnyArg) : c \in DetectCmdNames} \cup AncestryCmds
\* cleanup: a command of the inspection fails for every piece, a removal
\* command for one piece
CleanupCmdNames ==
    {"git rev-parse --abbrev-ref HEAD", "fs read pr-metadata.json", "git branch --merged",
     "git rev-parse", "fs read current-issue.json", "fs read issue", "fs write issue"}
RemovalCmdNames == {"tmux kill-session", "git worktree remove"}
CleanupCmds(w) ==
    {Cmd(c, AnyArg) : c \in CleanupCmdNames}
        \cup {Cmd(c, n) : c \in RemovalCmdNames, n \in w.worktrees}
PRCmds ==
    StatusCmds \cup {Cmd(c, AnyArg) : c \in {"git rev-parse --abbrev-ref HEAD", "git push",
                                          "gh pr create", "fs write pr-metadata.json"}}

\* the empty installation: no piece yet, the issue not started
InitEmpty ==
    /\ worktrees = {}
    /\ sessions = {}
    /\ repoBranch = MainBranch
    /\ own = [n \in Names |-> 0]
    /\ behind = [n \in Names |-> 0]
    /\ forgePR = [n \in Names |-> "none"]
    /\ prMeta = {}
    /\ remote = {}
    /\ marker = [n \in Names |-> NoPath]
    /\ issueStatus = [f \in IssueFiles |-> StatusTodo]
    /\ repoDir = RepoRoot
    /\ branchOf = [n \in Names |-> NoBranch]
    /\ subjects = [n \in Names |-> 0]
    /\ last = NoCall

\* candidates of GeneratePieceName that are left out of a directory
GenGaps == {{}, {0}, {1}, {GenLimit}}

\* pieces directories for GeneratePieceName: the first k candidates of the
\* second "t" exist, but for a gap
GenDirs ==
    {{GenName(c) : c \in (0..(k - 1)) \ g} : k \in 0..(GenLimit + 1), g \in GenGaps}

\* an installation whose pieces directory is any of these
InitGenerate ==
    /\ worktrees \in GenDirs
    /\ sessions = {}
    /\ repoBranch = MainBranch
    /\ own = [n \in Names |-> 0]
    /\ behind = [n \in Names |-> 0]
    /\ forgePR = [n \in Names |-> "none"]
    /\ prMeta = {}
    /\ remote = {}
    /\ marker = [n \in Names |-> NoPath]
    /\ issueStatus = [f \in IssueFiles |-> StatusTodo]
    /\ repoDir = RepoRoot
    /\ branchOf = [n \in Names |-> NoBranch]
    /\ subjects = [n \in Names |-> 0]
    /\ last = NoCall

\* pieces some time after their creation: each has a worktree on its branch
\* and a tmux session, work was committed on some, and the piece made from
\* the issue holds its marker, the issue being in progress
InitPieces ==
    /\ worktrees \in {{NameOrder[i] : i \in 1..k} : k \in 0..MaxPieces}
    /\ sessions = worktrees
    /\ repoBranch = MainBranch
    /\ own \in {f \in [Names -> {0, Min(1, MaxCommits)}] : \A n \in Names \ worktrees : f[n] = 0}
    /\ behind = [n \in Names |-> 0]
    /\ forgePR = [n \in Names |-> "none"]
    /\ prMeta = {}
    /\ remote = {}
    /\ marker = [n \in Names |-> IF n = IssuePieceName /\ n \in worktrees
                                 THEN Rel(RepoRoot, InsideIssue) ELSE NoPath]
    /\ issueStatus = [f \in IssueFiles |-> IF f = InsideIssue /\ IssuePieceName \in worktrees
                                           THEN StatusInProgress ELSE StatusTodo]
    /\ repoDir = RepoRoot
    /\ branchOf = [n \in Names |-> IF n \in worktrees THEN n ELSE NoBranch]
    /\ subjects = own
    /\ last = NoCall

SetWorld(w) ==
    /\ worktrees' = w.worktrees
    /\ sessions' = w.sessions
    /\ repoBranch' = w.repoBranch
    /\ own' = w.own
    /\ behind' = w.behind
    /\ forgePR' = w.forgePR
    /\ prMeta' = w.prMeta
    /\ remote' = w.remote
    /\ marker' = w.marker
    /\ issueStatus' = w.issueStatus
    /\ repoDir' = w.repoDir
    /\ branchOf' = w.branchOf
    /\ subjects' = w.subjects

\* no invocation of the tool is in progress or waiting to be looked at
Idle == last = NoCall

\* a handler call: the world it leaves and the record of the call
Called(op, piece, result) ==
    \E r \in {result} :
        /\ SetWorld(r.w)
        /\ last' = [NoCall EXCEPT !.op = op, !.piece = piece, !.err = r.err, !.log = r.log,
                                  !.warnings = r.warnings, !.commitMsg = r.commitMsg]

\* where a piece command can be run from
RunDirs == worktrees \cup {MainDir}

HookInputs(names) == [names -> HookStates]

DoCreatePiece ==
    /\ Idle
    /\ Cardinality(worktrees) < MaxPieces
    /\ \E name \in {"", IssuePieceName}, hs \in HookStates, F \in FaultSets(CreateCmds) :
          Called("CreatePiece", name, CreatePiece(World, name, hs, F))

\* CreatePiece with a --name that holds a path separator
DoCreatePieceAt ==
    /\ Idle
    /\ Cardinality(worktrees) < MaxPieces
    /\ \E name \in {NestedPieceName, EscapingPieceName}, hs \in HookStates,
          F \in FaultSets(CreateCmds) :
          Called("CreatePiece", name, CreatePiece(World, name, hs, F))

DoCreatePieceFromIssue ==
    /\ Idle
    /\ Cardinality(worktrees) < MaxPieces
    /\ \E path \in IssuePaths, hs \in HookStates, F \in FaultSets(FromIssueCmds) :
          \E r \in {CreatePieceFromIssue(World, path, hs, F)} :
              /\ SetWorld(r.w)
              /\ last' = [NoCall EXCEPT !.op = "CreatePieceFromIssue", !.piece = IssuePieceName,
                                        !.err = r.err, !.log = r.log,
                                        !.warnings = r.warnings, !.issuePath = path]

DoUpdatePiece ==
    /\ Idle
    /\ \E workDir \in RunDirs, F \in FaultSets(UpdateCmds),
          H \in HookInputs({HookBeforePieceUpdate, HookAfterPieceUpdate}) :
             Called("UpdatePiece", workDir, UpdatePiece(World, workDir, H, F))

DoMergePiece ==
    /\ Idle
    /\ \E workDir \in RunDirs, F \in FaultSets(MergeCmds),
          H \in HookInputs({HookBeforePieceMerge, HookAfterPieceMerge}) :
             Called("MergePiece", workDir, MergePiece(World, workDir, H, F))

\* MergePiece as two steps of one invocation, so that another invocation
\* can run in between: the call up to its ahead check, which ends the call
\* when it fails or refuses, ...
DoMergePieceCheck ==
    /\ Idle
    /\ \E workDir \in RunDirs, F \in FaultSets(MergeCmds),
          H \in HookInputs({HookBeforePieceMerge}) :
          \E r \in {MergePieceUntilCheck(World, workDir, H, F)} :
              Called(IF r.err = "" THEN "MergePiece.checked" ELSE "MergePiece", workDir, r)

\* ... another invocation that commits on main while the call is between
\* its check and its checkout, ...
CommitOnMainMeanwhile ==
    /\ last.op = "MergePiece.checked"
    /\ behind' = [n \in Names |-> IF n \in CheckedOut(World) THEN Min(behind[n] + 1, MaxCommits)
                                  ELSE behind[n]]
    /\ last' = [last EXCEPT !.op = "MergePiece.raced"]
    /\ UNCHANGED <<worktrees, sessions, repoBranch, own, forgePR, prMeta, remote,
                   marker, issueStatus, repoDir, branchOf, subjects>>

\* ... and the rest of the call, in the repository as it is by then; the
\* piece name and the branch are those the call read before its check
DoMergePieceCommit ==
    /\ last.op \in {"MergePiece.checked", "MergePiece.raced"}
    /\ \E F \in FaultSets(MergeCmds), H \in HookInputs({HookAfterPieceMerge}) :
          Called("MergePiece", last.piece,
                 MergePieceFromCheck(World, Status(World, last.piece, {}).PieceName,
                                     CurrentBranch(World, last.piece, {}).branch,
                                     last.log, last.warnings, H, F))

DoIsBranchMerged ==
    /\ Idle
    /\ \E piece \in worktrees, F \in FaultSets(DetectCmds) :
          \E r \in {IsBranchMerged(World, branchOf[piece], F)} :
              /\ UNCHANGED world
              /\ last' = [NoCall EXCEPT !.op = "IsBranchMerged", !.piece = piece,
                                        !.err = r.err, !.log = r.log,
                                        !.warnings = r.warnings, !.status = r.status]

\* Git.IsCommitInBranch(repoRoot, tip of the branch, main)
DoIsCommitInBranch ==
    /\ Idle
    /\ \E piece \in worktrees, F \in FaultSets(AncestryCmds) :
          \E r \in {IsCommitInBranch(World, branchOf[piece], F)} :
              /\ UNCHANGED world
              /\ last' = [NoCall EXCEPT !.op = "IsCommitInBranch", !.piece = piece,
                                        !.err = r.err, !.log = r.log,
                                        !.status = [NoStatus EXCEPT !.IsMerged = r.merged]]

DoCleanupMergedPieces ==
    /\ Idle
    /\ \E dryRun \in BOOLEAN, F \in FaultSets(CleanupCmds(World)) :
          \E r \in {CleanupMergedPieces(World, dryRun, F)} :
              /\ SetWorld(r.w)
              /\ last' = [NoCall EXCEPT !.op = "CleanupMergedPieces", !.err = r.err,
                                        !.log = r.log, !.warnings = r.warnings,
                                        !.results = r.results, !.detected = r.detected,
                                        !.dryRun = dryRun]

HookNames ==
    {HookOnPieceCreate, HookBeforePieceMerge, HookAfterPieceMerge,
     HookBeforePieceUpdate, HookAfterPieceUpdate}

\* each field of a context is empty or holds a value
Contexts ==
    [PieceName : {<<>>, <<"p">>}, WorktreePath : {<<>>, <<"/", "w">>}, RepoRoot : {<<>>, <<"/", "r">>},
     MainBranch : {<<>>, <<"m">>}, SessionName : {<<>>, <<"s">>}]

\* what os.Environ() can hold: a variable of another program, a value left
\* for a context variable, another variable with the reserved prefix, and an
\* entry without "="
AmbientEntries ==
    {<<"P", "A", "T", "H", "=", "/", "b", "i", "n">>,
     EnvEntry(EnvKey.PieceName, <<"o", "l", "d">>),
     EnvPrefix \o <<"X", "=", "1">>,
     EnvPrefix \o <<"N">>}

RECURSIVE SeqsUpTo(_, _)
SeqsUpTo(S, k) ==
    IF k = 0 THEN {<<>>}
    ELSE LET T == SeqsUpTo(S, k - 1) IN T \cup {Append(t, x) : t \in T, x \in S}

Environs == SeqsUpTo(AmbientEntries, MaxEnvLen)

DoRunHook ==
    /\ Idle
    /\ \E hookName \in HookNames, file \in HookFiles, ctx \in Contexts, environ \in Environs :
          \E r \in {RunHookFile(hookName, file, ctx, environ)} :
              /\ UNCHANGED world
              /\ last' = [NoCall EXCEPT !.op = "RunHook", !.piece = hookName, !.err = r.err,
                                        !.log = r.log, !.warnings = r.warnings,
                                        !.hookFile = file, !.ctx = ctx,
                                        !.environ = environ, !.env = r.env]

DoCreatePR ==
    /\ Idle
    /\ \E workDir \in RunDirs, F \in FaultSets(PRCmds) :
          Called("CreatePR", workDir, CreatePR(World, workDir, F))

\* the invocation ends: the process exits and its record is dropped
DoStatus ==
    /\ Idle
    /\ \E workDir \in RunDirs \cup {OutsideDir}, F \in FaultSets(StatusCmds) :
          \E r \in {Status(World, workDir, F)} :
              last' = [NoCall EXCEPT !.op = "Status", !.piece = workDir, !.err = r.err,
                                     !.log = r.log,
                                     !.info = [InPiece |-> r.InPiece, PieceName |-> r.PieceName,
                                               WorktreePath |-> r.WorktreePath,
                                               RepoRoot |-> r.RepoRoot]]
    /\ UNCHANGED world

\* the lines an issue file is made of
DocLines ==
    {Delimiter, DelimiterCR, BlankLine, <<"title:", " ", "A">>, StatusLine(StatusTodo),
     <<"Status:", " ", "'", StatusDone, "'", "\r">>, <<"status:">>, <<"body">>}

\* the issue files: every text of up to MaxDocLines lines
Docs == UNION {[1..n -> DocLines] : n \in 1..MaxDocLines}

\* UpdateStatus on an issue file, and ParseStatus on what it wrote
DoUpdateStatus ==
    /\ Idle
    /\ \E doc \in Docs, status \in Statuses \cup {InvalidStatus} :
          \E r \in {UpdateStatus(doc, status)} :
              last' = [NoCall EXCEPT !.op = "UpdateStatus", !.err = r.err, !.doc = doc,
                                     !.newStatus = status, !.updated = r.doc,
                                     !.parsed = ParseStatusFile(r.doc)]
    /\ UNCHANGED world

\* the names given to SanitizePieceName: every text of up to MaxNameLen
\* characters, letters, a digit, separators, punctuation and a symbol
NameTexts ==
    UNION {[1..n -> {"a", "A", "1", Hyphen, " ", "_", "/", "!", "+"}] : n \in 0..MaxNameLen}

DoSanitizePieceName ==
    /\ Idle
    /\ \E name \in NameTexts :
          last' = [NoCall EXCEPT !.op = "SanitizePieceName", !.text = name,
                                 !.sanitized = SanitizePieceName(name)]
    /\ UNCHANGED world

DoGeneratePieceName ==
    /\ Idle
    /\ \E r \in {GeneratePieceName(World)} :
          last' = [NoCall EXCEPT !.op = "GeneratePieceName", !.piece = r.name,
                                 !.err = r.err, !.stats = r.stats]
    /\ UNCHANGED world

Exit ==
    /\ ~Idle
    /\ last' = NoCall
    /\ UNCHANGED world

\* --- what happens outside the tool, between invocations -------------------
\* a commit is made in a piece worktree
CommitOnPiece ==
    /\ Idle
    /\ \E p \in CheckedOut(World) :
          /\ own[p] < MaxCommits
          /\ own' = [own EXCEPT ![p] = @ + 1]
          /\ subjects' = [subjects EXCEPT ![p] = @ + 1]
    /\ UNCHANGED <<worktrees, sessions, repoBranch, behind, forgePR, prMeta, remote,
                   marker, issueStatus, repoDir, branchOf, last>>

\* a commit with an empty message (git commit --allow-empty-message)
CommitWithoutSubject ==
    /\ Idle
    /\ \E p \in CheckedOut(World) :
          /\ own[p] < MaxCommits
          /\ own' = [own EXCEPT ![p] = @ + 1]
    /\ UNCHANGED <<worktrees, sessions, repoBranch, behind, forgePR, prMeta, remote,
                   marker, issueStatus, repoDir, branchOf, subjects, last>>

\* main receives a commit (a pull, a merged pull request, a direct commit)
CommitOnMain ==
    /\ Idle
    /\ \E p \in CheckedOut(World) : behind[p] < MaxCommits
    /\ behind' = [n \in Names |-> IF n \in CheckedOut(World) THEN Min(behind[n] + 1, MaxCommits)
                                  ELSE behind[n]]
    /\ UNCHANGED <<worktrees, sessions, repoBranch, own, forgePR, prMeta, remote,
                   marker, issueStatus, repoDir, branchOf, subjects, last>>

\* the piece branch is merged into main by hand, without squashing
MergeByHand ==
    /\ Idle
    /\ \E p \in CheckedOut(World) :
          /\ own[p] > 0
          /\ own' = [own EXCEPT ![p] = 0]
          /\ subjects' = [subjects EXCEPT ![p] = 0]
          /\ behind' = [n \in Names |-> IF n \in CheckedOut(World) \ {p}
                                        THEN Min(behind[n] + 1, MaxCommits) ELSE behind[n]]
    /\ UNCHANGED <<worktrees, sessions, repoBranch, forgePR, prMeta, remote,
                   marker, issueStatus, repoDir, branchOf, last>>

\* the pull request of a branch is merged on the forge; the forge may delete
\* the head branch
ForgeMerge ==
    /\ Idle
    /\ \E p \in CheckedOut(World), deleteBranch \in BOOLEAN :
          /\ forgePR[p] = "open"
          /\ forgePR' = [forgePR EXCEPT ![p] = "merged"]
          /\ remote' = IF deleteBranch THEN remote \ {p} ELSE remote
    /\ UNCHANGED <<worktrees, sessions, repoBranch, own, behind, prMeta, marker,
                   issueStatus, repoDir, branchOf, subjects, last>>

\* somebody checks out another branch in the main repository
CheckoutByHand ==
    /\ Idle
    /\ repoBranch' = IF repoBranch = MainBranch THEN OtherBranch ELSE MainBranch
    /\ UNCHANGED <<worktrees, sessions, own, behind, forgePR, prMeta, remote,
                   marker, issueStatus, repoDir, branchOf, subjects, last>>

\* a tmux session is closed by its user
SessionEnds ==
    /\ Idle
    /\ \E p \in sessions : sessions' = sessions \ {p}
    /\ UNCHANGED <<worktrees, repoBranch, own, behind, forgePR, prMeta, remote,
                   marker, issueStatus, repoDir, branchOf, subjects, last>>

\* somebody edits the status field of the issue
EditIssue ==
    /\ Idle
    /\ \E s \in StatusFields :
          /\ s # issueStatus[InsideIssue]
          /\ issueStatus' = [issueStatus EXCEPT ![InsideIssue] = s]
    /\ UNCHANGED <<worktrees, sessions, repoBranch, own, behind, forgePR, prMeta,
                   remote, marker, repoDir, branchOf, subjects, last>>

\* --- specifications ------------------------------------------------------
\* the whole lifecycle
Init == InitEmpty

Next ==
    \/ DoCreatePiece
    \/ DoCreatePieceAt
    \/ DoCreatePieceFromIssue
    \/ DoUpdatePiece
    \/ DoMergePiece
    \/ DoIsBranchMerged
    \/ DoIsCommitInBranch
    \/ DoCleanupMergedPieces
    \/ DoCreatePR
    \/ DoRunHook
    \/ DoGeneratePieceName
    \/ DoStatus
    \/ DoUpdateStatus
    \/ DoSanitizePieceName
    \/ DoMergePieceCheck
    \/ CommitOnMainMeanwhile
    \/ DoMergePieceCommit
    \/ Exit
    \/ CommitOnPiece
    \/ CommitWithoutSubject
    \/ CommitOnMain
    \/ MergeByHand
    \/ ForgeMerge
    \/ CheckoutByHand
    \/ SessionEnds
    \/ EditIssue

Spec == Init /\ [][Next]_vars

\* creating pieces
NextCreate ==
    \/ DoCreatePiece
    \/ DoCreatePieceFromIssue
    \/ EditIssue
    \/ Exit

SpecCreate == InitEmpty /\ [][NextCreate]_vars

\* generating a piece name
NextGenerate ==
    \/ DoGeneratePieceName
    \/ Exit

SpecGenerate == InitGenerate /\ [][NextGenerate]_vars

\* sanitizing names
NextSanitize ==
    \/ DoSanitizePieceName
    \/ Exit

SpecSanitize == InitEmpty /\ [][NextSanitize]_vars

\* writing and reading the status of an issue file
NextIssueFile ==
    \/ DoUpdateStatus
    \/ Exit

SpecIssueFile == InitEmpty /\ [][NextIssueFile]_vars

\* keeping a piece up to date and merging it
NextMerge ==
    \/ DoUpdatePiece
    \/ DoMergePiece
    \/ CommitOnPiece
    \/ CommitOnMain
    \/ CheckoutByHand
    \/ Exit

SpecMerge == InitPieces /\ [][NextMerge]_vars

\* squash merges of branches whose commits may lack a subject
NextSquash ==
    \/ DoMergePiece
    \/ CommitOnPiece
    \/ CommitWithoutSubject
    \/ Exit

SpecSquash == InitPieces /\ [][NextSquash]_vars

\* update and merge, wherever the main repository lives
InitAnywhere ==
    /\ worktrees \in {{NameOrder[i] : i \in 1..k} : k \in 0..MaxPieces}
    /\ sessions = worktrees
    /\ repoBranch = MainBranch
    /\ own \in {f \in [Names -> {0, Min(1, MaxCommits)}] : \A n \in Names \ worktrees : f[n] = 0}
    /\ behind = [n \in Names |-> 0]
    /\ forgePR = [n \in Names |-> "none"]
    /\ prMeta = {}
    /\ remote = {}
    /\ marker = [n \in Names |-> NoPath]
    /\ issueStatus = [f \in IssueFiles |-> StatusTodo]
    /\ repoDir \in RepoDirs
    /\ branchOf = [n \in Names |-> IF n \in worktrees THEN n ELSE NoBranch]
    /\ subjects = own
    /\ last = NoCall

SpecAnywhere == InitAnywhere /\ [][NextMerge]_vars

\* asking where one is, wherever the main repository lives and whatever
\* the pieces are named
NextStatus ==
    \/ DoStatus
    \/ DoCreatePieceAt
    \/ Exit

SpecStatus == InitAnywhere /\ [][NextStatus]_vars

\* detecting that a branch was merged
NextDetect ==
    \/ DoIsBranchMerged
    \/ DoIsCommitInBranch
    \/ DoCreatePR
    \/ ForgeMerge
    \/ Exit

SpecDetect == InitPieces /\ [][NextDetect]_vars

\* pull requests, their metadata file, and what detection and cleanup make
\* of it
NextMetadata ==
    \/ DoCreatePR
    \/ DoIsBranchMerged
    \/ DoCleanupMergedPieces
    \/ Exit

SpecMetadata == InitPieces /\ [][NextMetadata]_vars

\* pieces from creation to cleanup, with work committed on them
NextLifecycle ==
    \/ DoCreatePiece
    \/ DoCreatePieceAt
    \/ DoUpdatePiece
    \/ DoMergePiece
    \/ DoCleanupMergedPieces
    \/ CommitOnPiece
    \/ Exit

SpecLifecycle == InitEmpty /\ [][NextLifecycle]_vars

\* creating pieces under every kind of name
NextNames ==
    \/ DoCreatePiece
    \/ DoCreatePieceAt
    \/ DoCreatePieceFromIssue
    \/ Exit

SpecNames == InitEmpty /\ [][NextNames]_vars

\* pieces that are created and worked on, never merged, and what detection
\* and cleanup make of them
NextFresh ==
    \/ DoCreatePiece
    \/ CommitOnPiece
    \/ DoIsBranchMerged
    \/ DoCleanupMergedPieces
    \/ Exit

SpecFresh == InitEmpty /\ [][NextFresh]_vars

\* MergePiece with another invocation committing on main in between
NextRace ==
    \/ DoMergePieceCheck
    \/ CommitOnMainMeanwhile
    \/ DoMergePieceCommit
    \/ CommitOnPiece
    \/ Exit

SpecRace == InitPieces /\ [][NextRace]_vars

\* an issue from the piece made of it to the cleanup of that piece, with
\* edits of its status by hand
NextIssues ==
    \/ DoCreatePieceFromIssue
    \/ DoCleanupMergedPieces
    \/ EditIssue
    \/ Exit

SpecIssues == InitEmpty /\ [][NextIssues]_vars

\* the hook runner on its own
NextHooks ==
    \/ DoRunHook
    \/ Exit

SpecHooks == InitEmpty /\ [][NextHooks]_vars

\* cleaning up merged pieces
NextCleanup ==
    \/ DoCleanupMergedPieces
    \/ SessionEnds
    \/ EditIssue
    \/ Exit

SpecCleanup == InitPieces /\ [][NextCleanup]_vars

TypeOK ==
    /\ worktrees \subseteq Names
    /\ sessions \subseteq Names
    /\ repoBranch \in {MainBranch, OtherBranch}
    /\ Cardinality(worktrees) <= MaxPieces

\* ------------------------------------------------------------------------
\* Reading the record of a call
\* ------------------------------------------------------------------------
LogHas(log, c) == \E i \in 1..Len(log) : log[i].cmd = c
LogHasFor(log, c, a) == \E i \in 1..Len(log) : log[i].cmd = c /\ log[i].arg = a
LogHasRan(log, c, a, ok) == \E i \in 1..Len(log) : log[i] = Ran(c, a, ok)
LogFailed(log, c) == \E i \in 1..Len(log) : log[i].cmd = c /\ ~log[i].ok
Warned(warnings, text) == \E i \in 1..Len(warnings) : warnings[i] = text
ResultNames(results) == {results[i].PieceName : i \in 1..Len(results)}

\* ------------------------------------------------------------------------
\* Properties
\* ------------------------------------------------------------------------
\* the commands by which MergePiece changes the main repository
MergeMutations == {"git checkout", "git merge --squash", "git commit"}

\* C1: when main has a commit the piece branch lacks, MergePiece returns an
\* error, runs no checkout, no squash merge and no commit, and leaves the
\* branch checked out in the main repository as it was.
C1_MainAheadRefusesMerge ==
    [][(last'.op = "MergePiece" /\ last'.piece \in worktrees /\ behind[last'.piece] > 0)
        => /\ last'.err # ""
           /\ \A c \in MergeMutations : ~LogHas(last'.log, c)
           /\ repoBranch' = repoBranch
           /\ behind' = behind]_vars

\* MergePiece has refused a piece with commits of its own because main is
\* ahead, while the main repository sits on another branch
C1_Witness ==
    /\ last.op = "MergePiece"
    /\ last.err = "cannot merge: main branch has commits not in piece worktree"
    /\ last.piece \in worktrees
    /\ own[last.piece] > 0
    /\ behind[last.piece] > 0
    /\ repoBranch = OtherBranch

\* the commands by which cleanup changes a piece
CleanupMutations == {"tmux kill-session", "git worktree remove", "fs write issue"}

\* the issue file a piece's marker points at
MarkerFile(p) == CleanAbs(RepoRoot \o marker[p])

\* C2: CleanupMergedPieces never kills the session, removes the worktree or
\* changes the issue status of a piece that IsBranchMerged did not report as
\* merged, and such a piece is not in the returned list.
C2_UnmergedPieceUntouched ==
    [][last'.op = "CleanupMergedPieces"
        => \A p \in worktrees \ last'.detected :
              /\ p \in worktrees'
              /\ p \in sessions => p \in sessions'
              /\ marker'[p] = marker[p]
              /\ marker[p] # NoPath => issueStatus'[MarkerFile(p)] = issueStatus[MarkerFile(p)]
              /\ \A c \in CleanupMutations : ~LogHasFor(last'.log, c, p)
              /\ p \notin ResultNames(last'.results)]_vars

\* a cleanup has removed one piece and left alone the unmerged piece that
\* was made from the issue, its session and its issue
C2_Witness ==
    /\ last.op = "CleanupMergedPieces"
    /\ ~last.dryRun
    /\ last.detected # {}
    /\ last.detected \cap worktrees = {}
    /\ IssuePieceName \in worktrees \ last.detected
    /\ IssuePieceName \in sessions
    /\ marker[IssuePieceName] # NoPath
    /\ issueStatus[InsideIssue] = StatusInProgress

\* the on-piece-create hook of the call exited non-zero
CreateHookFailed(log) == LogHasRan(log, "bash", HookOnPieceCreate, FALSE)

BeforeHooks == {HookBeforePieceUpdate, HookBeforePieceMerge}
AfterHooks == {HookAfterPieceUpdate, HookAfterPieceMerge}
BeforeHookFailed(log) == \E h \in BeforeHooks : LogHasRan(log, "bash", h, FALSE)

\* what UpdatePiece and MergePiece do after their before-hook
StepsAfterBeforeHook ==
    {"git merge-base", "git rev-list --count", "git merge", "git log", "git checkout",
     "git merge --squash", "git commit"}

\* C4: when the before-piece-update hook of UpdatePiece or the
\* before-piece-merge hook of MergePiece fails, the call returns an error and
\* runs nothing after the hook: no ahead check, no merge, checkout, squash
\* or commit, no after-hook; the repository is as it was.
C4_BeforeHookGates ==
    [][(last'.op \in {"UpdatePiece", "MergePiece"} /\ BeforeHookFailed(last'.log))
        => /\ last'.err # ""
           /\ \A c \in StepsAfterBeforeHook : ~LogHas(last'.log, c)
           /\ \A h \in AfterHooks : ~LogHasFor(last'.log, "bash", h)
           /\ last'.log[Len(last'.log)].cmd = "bash"
           /\ UNCHANGED world]_vars

\* the before-piece-merge hook has stopped a merge that was ready to go
C4_Witness ==
    /\ last.op = "MergePiece"
    /\ BeforeHookFailed(last.log)
    /\ last.piece \in worktrees
    /\ own[last.piece] > 0
    /\ behind[last.piece] = 0

\* the absolute, cleaned path an issue argument denotes
DenotedPath(issuePath) ==
    CleanAbs(IF issuePath.abs THEN issuePath.segs ELSE RepoRoot \o issuePath.segs)

\* path lies in directory dir or below it
Within(dir, path) == Len(path) >= Len(dir) /\ SubSeq(path, 1, Len(dir)) = dir

\* what CreatePieceFromIssue does once the issue path is accepted
StepsAfterPathCheck ==
    {"git worktree add", "tmux new-session", "bash", "tmux kill-session",
     "git worktree remove", "fs write issue"}

\* C5: when the issue path resolves to a file outside the configured issues
\* directory, CreatePieceFromIssue returns an error and has created no
\* worktree and no session, run no hook, written no marker and not changed
\* the issue.
C5_OutsideIssueRejected ==
    [][(/\ last'.op = "CreatePieceFromIssue"
        /\ DenotedPath(last'.issuePath) \in IssueFiles
        /\ ~Within(RepoRoot \o IssuesDir, DenotedPath(last'.issuePath)))
        => /\ last'.err # ""
           /\ \A c \in StepsAfterPathCheck : ~LogHas(last'.log, c)
           /\ UNCHANGED world]_vars

\* a path that leaves the issues directory by ".." and names an existing
\* markdown file was refused
C5_Witness ==
    /\ last.op = "CreatePieceFromIssue"
    /\ last.err = "issue file must be within the issues directory"
    /\ ~last.issuePath.abs
    /\ last.issuePath.segs = <<"..", "a.md">>
    /\ worktrees = {}

\* C10: with dryRun set, CleanupMergedPieces kills no session, removes no
\* worktree and changes no issue file, and the list it returns holds exactly
\* the pieces detected as merged.
C10_DryRunOnlyReports ==
    [][(last'.op = "CleanupMergedPieces" /\ last'.dryRun)
        => /\ UNCHANGED world
           /\ \A c \in CleanupMutations : ~LogHas(last'.log, c)
           /\ ResultNames(last'.results) = last'.detected
           /\ Len(last'.results) = Cardinality(last'.detected)]_vars

\* a dry run has reported the merged piece made from the issue and left its
\* worktree, its session and the issue as they were
C10_Witness ==
    /\ last.op = "CleanupMergedPieces"
    /\ last.dryRun
    /\ IssuePieceName \in last.detected
    /\ IssuePieceName \in worktrees \cap sessions
    /\ marker[IssuePieceName] # NoPath
    /\ issueStatus[InsideIssue] = StatusInProgress

\* ------------------------------------------------------------------------
\* Merge detection
\* ------------------------------------------------------------------------
\* the commands of the commit-ancestry strategy
CommitStrategyCmds == {"git rev-parse", "git merge-base --is-ancestor"}
CommitStrategyFailed(log) == \E c \in CommitStrategyCmds : LogFailed(log, c)

\* a command of one of the strategies failed during the call
StrategyFailed(log) ==
    \/ LogFailed(log, "gh pr view")
    \/ LogFailed(log, "git branch --merged")
    \/ CommitStrategyFailed(log)

DetectsByPR(p) == LogHasRan(last.log, "gh pr view", p, TRUE) /\ forgePR[p] = "merged"
DetectsByPRBranch(p) == forgePR[p] = "merged"
DetectsByGit(p) == own[p] = 0 /\ ~LogFailed(last.log, "git branch --merged")
DetectsByCommit(p) == own[p] = 0 /\ ~CommitStrategyFailed(last.log)

\* C6: IsBranchMerged returns IsMerged = true whenever one of the four
\* strategies on its own detects the merge, whatever the others report.
C6_AsStated ==
    (/\ last.op = "IsBranchMerged"
     /\ \/ DetectsByPR(last.piece)
        \/ DetectsByPRBranch(last.piece)
        \/ DetectsByGit(last.piece)
        \/ DetectsByCommit(last.piece))
    => /\ last.err = ""
       /\ last.status.IsMerged

\* C8: without pull request metadata, a merged pull request of the forge
\* whose head is the branch makes IsBranchMerged return IsMerged = true with
\* Method "pr-branch" and the number of that pull request.
C8_AsStated ==
    (/\ last.op = "IsBranchMerged"
     /\ last.piece \notin prMeta
     /\ forgePR[last.piece] = "merged")
    => /\ last.err = ""
       /\ last.status.IsMerged
       /\ last.status.Method = "pr-branch"
       /\ last.status.PRNumber = PRNumber(last.piece)

\* the first strategy, in the order pr, pr-branch, git, commit, that detects
FirstDetecting(p) ==
    IF DetectsByPR(p) THEN "pr"
    ELSE IF DetectsByPRBranch(p) THEN "pr-branch"
    ELSE IF DetectsByGit(p) THEN "git"
    ELSE IF DetectsByCommit(p) THEN "commit"
    ELSE ""

\* position of the first entry of a command in the log, 0 if it did not run
FirstAt(log, c) ==
    IF LogHas(log, c) THEN CHOOSE i \in 1..Len(log) :
                              log[i].cmd = c /\ \A j \in 1..(i - 1) : log[j].cmd # c
    ELSE 0

\* C9: the strategies run in the order pr, pr-branch, git, commit, none runs
\* after one was positive, and Method names the first one that detected.
C9_AsStated ==
    (last.op = "IsBranchMerged" /\ last.err = "")
    => /\ last.status.Method = FirstDetecting(last.piece)
       /\ last.status.Method = "pr" => ~LogHas(last.log, "git branch --merged")
       /\ last.status.Method \in {"pr", "git"} => ~LogHas(last.log, "git rev-parse")
       /\ LogHas(last.log, "git branch --merged")
             => FirstAt(last.log, "gh pr view") < FirstAt(last.log, "git branch --merged")
       /\ LogHas(last.log, "git rev-parse")
             => FirstAt(last.log, "git branch --merged") < FirstAt(last.log, "git rev-parse")

\* ------------------------------------------------------------------------
\* Cleanup: removal failures, issue status
\* ------------------------------------------------------------------------
\* C11: when removing the worktree of one piece fails during
\* CleanupMergedPieces, a warning is written for that piece, which stays and
\* is not reported; every piece under the pieces root is still inspected,
\* every piece detected as merged still has its removal attempted, and the
\* run returns no error.
C11_RemovalFailureIsPerPiece ==
    [][(/\ last'.op = "CleanupMergedPieces"
        /\ \E p \in worktrees : LogHasRan(last'.log, "git worktree remove", p, FALSE))
        => /\ last'.err = ""
           /\ Warned(last'.warnings, "Failed to cleanup")
           /\ \A q \in worktrees :
                 /\ LogHasFor(last'.log, "git rev-parse --abbrev-ref HEAD", q)
                 /\ q \in last'.detected => LogHasFor(last'.log, "git worktree remove", q)
                 /\ LogHasRan(last'.log, "git worktree remove", q, TRUE)
                       => q \notin worktrees' /\ q \in ResultNames(last'.results)
                 /\ LogHasRan(last'.log, "git worktree remove", q, FALSE)
                       => q \in worktrees' /\ q \notin ResultNames(last'.results)]_vars

\* the first piece could not be removed and the piece after it was cleaned up
C11_Witness ==
    /\ last.op = "CleanupMergedPieces"
    /\ LogHasRan(last.log, "git worktree remove", IssuePieceName, FALSE)
    /\ IssuePieceName \in worktrees
    /\ GenName(0) \in last.detected
    /\ GenName(0) \notin worktrees
    /\ ResultNames(last.results) = {GenName(0)}

\* C12: CleanupMergedPieces changes the status of an issue only from
\* in-progress to done, and only for the issue a cleaned-up merged piece
\* points at; an issue that is done or todo is not written.
C12_OnlyInProgressBecomesDone ==
    [][last'.op = "CleanupMergedPieces"
        => /\ \A f \in IssueFiles :
                 issueStatus'[f] # issueStatus[f]
                 => /\ issueStatus[f] = StatusInProgress
                    /\ issueStatus'[f] = StatusDone
                    /\ \E p \in last'.detected :
                          /\ marker[p] # NoPath
                          /\ MarkerFile(p) = f
                          /\ p \notin worktrees'
           /\ \A p \in worktrees :
                 marker[p] # NoPath
                 => /\ issueStatus[MarkerFile(p)] # StatusInProgress
                          => ~LogHasFor(last'.log, "fs write issue", p)
                    /\ LogHasRan(last'.log, "fs write issue", p, TRUE)
                          => issueStatus'[MarkerFile(p)] = StatusDone]_vars

\* the merged piece made from the issue was cleaned up and its issue, in
\* progress until then, is done
C12_Witness ==
    /\ last.op = "CleanupMergedPieces"
    /\ IssuePieceName \in last.detected
    /\ IssuePieceName \notin worktrees
    /\ LogHasRan(last.log, "fs write issue", IssuePieceName, TRUE)
    /\ issueStatus[InsideIssue] = StatusDone
    /\ \E i \in 1..Len(last.results) : last.results[i].IssueUpdated

\* C13: CreatePieceFromIssue changes the status of the issue to in-progress
\* if and only if its status is todo (an issue without a status field is
\* todo); with any other status the issue file is not written.  A failing
\* write is a warning and leaves the issue as it was.
C13_OnlyTodoBecomesInProgress ==
    [][last'.op = "CreatePieceFromIssue"
        => LET f == DenotedPath(last'.issuePath)
               wasTodo == f \in IssueFiles /\ issueStatus[f] \in {StatusTodo, MissingStatus}
           IN  /\ \A g \in IssueFiles :
                     issueStatus'[g] # issueStatus[g]
                     => /\ g = f
                        /\ wasTodo
                        /\ issueStatus'[g] = StatusInProgress
                        /\ last'.err = ""
               /\ ~wasTodo => ~LogHas(last'.log, "fs write issue")
               /\ (wasTodo /\ last'.err = "" /\ ~LogFailed(last'.log, "fs write issue"))
                     => issueStatus'[f] = StatusInProgress]_vars

\* a piece was made from the todo issue, which is now in progress
C13_Witness ==
    /\ last.op = "CreatePieceFromIssue"
    /\ last.err = ""
    /\ IssuePieceName \in worktrees
    /\ marker[IssuePieceName] # NoPath
    /\ LogHasRan(last.log, "fs write issue", IssuePieceName, TRUE)
    /\ issueStatus[InsideIssue] = StatusInProgress

\* ------------------------------------------------------------------------
\* Update and merge: after-hooks, order of steps, commit message
\* ------------------------------------------------------------------------
\* C14: when the after-piece-update or after-piece-merge hook fails, the
\* call returns an error and runs nothing after the hook; the merge of main
\* into the piece branch, or the squash commit on main, stays as it was made.
C14_AfterHookFailureKeepsMerge ==
    [][(/\ last'.op \in {"UpdatePiece", "MergePiece"}
        /\ \E h \in AfterHooks : LogHasRan(last'.log, "bash", h, FALSE))
        => /\ last'.err # ""
           /\ last'.log[Len(last'.log)].cmd = "bash"
           /\ last'.op = "UpdatePiece"
                 => /\ LogHasRan(last'.log, "git merge", last'.piece, TRUE)
                    /\ behind'[last'.piece] = 0
                    /\ own'[last'.piece] >= own[last'.piece]
           /\ last'.op = "MergePiece"
                 => /\ LogHasRan(last'.log, "git commit", last'.piece, TRUE)
                    /\ repoBranch' = MainBranch
                    /\ behind[last'.piece] = 0
                    /\ behind'[last'.piece] > 0]_vars

\* the after-piece-merge hook failed after the squash commit was made on
\* main, which had been on another branch
C14_Witness ==
    /\ last.op = "MergePiece"
    /\ last.err = "after-piece-merge hook failed"
    /\ LogHasRan(last.log, "bash", HookAfterPieceMerge, FALSE)
    /\ LogHasRan(last.log, "git commit", last.piece, TRUE)
    /\ repoBranch = MainBranch
    /\ behind[last.piece] > 0

\* the steps of UpdatePiece and MergePiece after Status
UpdateMergeSteps ==
    {"git rev-parse --abbrev-ref HEAD", "bash", "git merge-base", "git rev-list --count",
     "git merge", "git log", "git checkout", "git merge --squash", "git commit"}

\* entry i of the log is the successful run of command c
OkAt(log, i, c) == i \in 1..Len(log) /\ log[i].cmd = c /\ log[i].ok

\* C15: UpdatePiece and MergePiece stop at the first step that fails: a step
\* runs only if every step before it succeeded, and a failed step is the
\* last one and makes the call return an error.  MergePiece commits only
\* directly after a successful squash merge that directly follows a
\* successful checkout of the main branch, and an after-hook runs only
\* directly after the successful merge or commit.
C15_FailStop ==
    last.op \in {"UpdatePiece", "MergePiece"}
        => LET log == last.log
           IN  /\ \A i \in 1..Len(log) :
                     (log[i].cmd \in UpdateMergeSteps /\ ~log[i].ok)
                     => i = Len(log) /\ last.err # ""
               /\ \A i \in 1..Len(log) :
                     /\ log[i].cmd = "git commit"
                           => /\ OkAt(log, i - 1, "git merge --squash")
                              /\ OkAt(log, i - 2, "git checkout")
                              /\ log[i - 2].arg = MainBranch
                     /\ (log[i].cmd = "bash" /\ log[i].arg = HookAfterPieceMerge)
                           => OkAt(log, i - 1, "git commit") /\ repoBranch = MainBranch
                     /\ (log[i].cmd = "bash" /\ log[i].arg = HookAfterPieceUpdate)
                           => OkAt(log, i - 1, "git merge")

\* the checkout of main succeeded, the squash merge failed, and MergePiece
\* stopped there without a commit
C15_Witness ==
    /\ last.op = "MergePiece"
    /\ LogHasRan(last.log, "git checkout", MainBranch, TRUE)
    /\ LogHasRan(last.log, "git merge --squash", last.piece, FALSE)
    /\ last.log[Len(last.log)].cmd = "git merge --squash"
    /\ last.err # ""
    /\ repoBranch = MainBranch

C17_AsStated ==
    (last.op \in {"UpdatePiece", "MergePiece"} /\ last.piece \notin Names)
    => /\ last.err = "not in a piece worktree"
       /\ ~LogHas(last.log, "bash")
       /\ \A c \in {"git merge", "git checkout", "git merge --squash", "git commit"} :
             ~LogHas(last.log, c)

\* ------------------------------------------------------------------------
\* C18: RunHook never executes a hook file that is missing or has none of
\* the executable permission bits, and returns success for it, with a
\* warning when the file is there but not executable; for a hook file that
\* exists with some executable bit it returns an error exactly when the
\* script exits non-zero.
\* ------------------------------------------------------------------------
HookMissing(file) == file.stat = "no"
HookNotExecutable(file) == file.stat = "yes" /\ file.mode \cap ExecBits = {}
HookExecutable(file) == file.stat = "yes" /\ file.mode \cap ExecBits # {}

RECURSIVE EqualsFrom(_, _)
EqualsFrom(e, i) ==
    IF i > Len(e) THEN 0 ELSE IF e[i] = "=" THEN i ELSE EqualsFrom(e, i + 1)
EqualsAt(e) == EqualsFrom(e, 1)
IsVariable(e) == EqualsAt(e) > 0
KeyOf(e) == SubSeq(e, 1, EqualsAt(e) - 1)
ValueOf(e) == SubSeq(e, EqualsAt(e) + 1, Len(e))
StartsWith(text, prefix) == Len(text) >= Len(prefix) /\ SubSeq(text, 1, Len(prefix)) = prefix

\* an entry KEY=value whose key starts with MP_
IsMPVariable(e) == IsVariable(e) /\ StartsWith(KeyOf(e), EnvPrefix)

\* the MP_ variables of an environment, in their order
MPVariables(env) == SelectSeq(env, IsMPVariable)

SetFields(ctx) == {f \in DOMAIN ctx : ctx[f] # <<>>}

\* as many MP_ entries as the context has non-empty fields, and they are the
\* entries KEY=value of those fields
C19_HookEnvironment ==
    (last.op = "RunHook" /\ LogHas(last.log, "bash")) =>
        LET mp == MPVariables(last.env)
            set == SetFields(last.ctx)
        IN /\ Len(mp) = Cardinality(set)
           /\ {mp[i] : i \in 1..Len(mp)} = {EnvEntry(EnvKey[f], last.ctx[f]) : f \in set}

\* the tool was started with MP_PIECE_NAME and another MP_ variable set; the
\* hook gets the piece name of the context and no worktree path
C19_Witness ==
    /\ last.op = "RunHook"
    /\ LogHas(last.log, "bash")
    /\ \E i \in 1..Len(last.environ) :
          /\ IsVariable(last.environ[i])
          /\ KeyOf(last.environ[i]) = EnvKey.PieceName
          /\ ValueOf(last.environ[i]) # last.ctx.PieceName
    /\ \E i \in 1..Len(last.environ) :
          /\ IsVariable(last.environ[i])
          /\ StartsWith(KeyOf(last.environ[i]), EnvPrefix)
          /\ KeyOf(last.environ[i]) # EnvKey.PieceName
    /\ last.ctx.PieceName # <<>>
    /\ last.ctx.WorktreePath = <<>>
    /\ Len(MPVariables(last.env)) = Cardinality(SetFields(last.ctx))

\* ------------------------------------------------------------------------
\* C20: after any sequence of CreatePiece, UpdatePiece, MergePiece and
\* CleanupMergedPieces calls, every existing piece worktree is checked out
\* on exactly one branch, and that branch is named after the piece.
\* ------------------------------------------------------------------------
C20_AsStated ==
    \A n \in worktrees : branchOf[n] = n

\* ------------------------------------------------------------------------
\* C21: every worktree created by CreatePiece or CreatePieceFromIssue lies
\* under the pieces root directory, whatever piece name the caller or the
\* issue title supplies.
\* ------------------------------------------------------------------------
C21_AsStated ==
    \A n \in worktrees :
        /\ Within(PiecesRoot, PiecePath(n))
        /\ PiecePath(n) # PiecesRoot

\* ------------------------------------------------------------------------
\* C22: CreatePiece with an explicit name that already exists under the
\* pieces root returns an error without adding a worktree, creating a tmux
\* session or running the on-piece-create hook, and leaves the existing
\* piece untouched.
\* ------------------------------------------------------------------------
CreateSteps == {"git worktree add", "fs symlink", "tmux new-session", "bash",
                "tmux kill-session", "git worktree remove"}

C22_ExistingNameRefused ==
    [][(last'.op = "CreatePiece" /\ last'.piece # "" /\ last'.piece \in worktrees)
        => /\ last'.err # ""
           /\ \A c \in CreateSteps : ~LogHas(last'.log, c)
           /\ world' = world]_vars

\* the piece add-login exists, without its tmux session, and a second
\* CreatePiece with that name is refused
C22_Witness ==
    /\ last.op = "CreatePiece"
    /\ last.piece = IssuePieceName
    /\ last.err = "piece name already exists"
    /\ IssuePieceName \in worktrees
    /\ IssuePieceName \notin sessions

\* ------------------------------------------------------------------------
\* C23: GeneratePieceName always terminates: it tries the timestamp name and
\* then numeric suffixes, makes at most 1000 attempts, returns the first
\* candidate that does not exist under the pieces root, and fails with an
\* error if every attempt collides.
\* ------------------------------------------------------------------------
\* counters of the candidates that do not exist in the pieces directory
FreeCounters == {c \in 0..GenLimit : GenName(c) \notin worktrees}

FirstFree == CHOOSE c \in FreeCounters : \A d \in FreeCounters : c <= d

\* the candidates are the timestamp name and the suffixes 1 to GenLimit; the
\* call returns the first that does not exist, after one stat for each
\* candidate before it and one for itself, and fails when all GenLimit + 1
\* exist
GenerateOutcome(attempts) ==
    last.op = "GeneratePieceName"
    => /\ last.stats <= attempts
       /\ IF FreeCounters # {}
          THEN /\ last.err = ""
               /\ last.piece = GenName(FirstFree)
               /\ last.stats = FirstFree + 1
          ELSE /\ last.err # ""
               /\ last.piece = ""

\* as stated: at most 1000 attempts
C23_AsStated == GenerateOutcome(GenLimit)

\* at most 1001 attempts: the timestamp name and 1000 suffixes
C23_GenerateTerminates == GenerateOutcome(GenLimit + 1)

\* the timestamp name and the suffixes 1 to 999 exist: the call returns the
\* suffix 1000 at its 1001st attempt
C23_Witness ==
    /\ last.op = "GeneratePieceName"
    /\ last.err = ""
    /\ last.piece = GenName(GenLimit)
    /\ last.stats = GenLimit + 1

\* ------------------------------------------------------------------------
\* C24: a failure to create the symlink or the tmux session does not fail
\* CreatePiece: each emits a warning and CreatePiece still returns success
\* with the worktree in place, provided the worktree was added and the
\* on-piece-create hook did not fail.
\* ------------------------------------------------------------------------
\* the names of the worktrees the call added
AddedNames(log) ==
    {log[i].arg : i \in {k \in 1..Len(log) : log[k] = Ran("git worktree add", log[k].arg, TRUE)}}

C24_SymlinkAndTmuxNonFatal ==
    (/\ last.op = "CreatePiece"
     /\ AddedNames(last.log) # {}
     /\ ~LogFailed(last.log, "bash"))
    => /\ last.err = ""
       /\ AddedNames(last.log) \subseteq worktrees
       /\ LogFailed(last.log, "fs symlink") => Warned(last.warnings, "Failed to create symlink")
       /\ LogFailed(last.log, "tmux new-session")
             => Warned(last.warnings, "Failed to create tmux session")

\* a call in which both the symlink and the tmux session failed
C24_Witness ==
    /\ last.op = "CreatePiece"
    /\ LogFailed(last.log, "fs symlink")
    /\ LogFailed(last.log, "tmux new-session")
    /\ LogHas(last.log, "bash")
    /\ last.err = ""
    /\ AddedNames(last.log) # {}
    /\ AddedNames(last.log) \subseteq worktrees

\* ------------------------------------------------------------------------
\* C25: Status never returns an error and never mutates anything (it issues
\* only read-only git queries and writes no file); when workDir is not in a
\* git repository it returns inPiece=false.
\* ------------------------------------------------------------------------
ReadOnlyQueries == {"git rev-parse --git-dir", "git rev-parse --show-toplevel"}

C25_StatusIsPureQuery ==
    [][last'.op = "Status"
        => /\ last'.err = ""
           /\ world' = world
           /\ \A i \in 1..Len(last'.log) : last'.log[i].cmd \in ReadOnlyQueries
           /\ ~InRepo(World, last'.piece) => ~last'.info.InPiece]_vars

\* Status was asked in a directory outside every repository
C25_Witness ==
    /\ last.op = "Status"
    /\ last.piece = OutsideDir
    /\ last.err = ""
    /\ ~last.info.InPiece
    /\ LogFailed(last.log, "git rev-parse --git-dir")

\* ------------------------------------------------------------------------
\* C26: Status reports inPiece=true if and only if the git-dir resolved for
\* workDir is nested under a path segment named worktrees; for a working
\* directory in the main repository it reports inPiece=false.
\* ------------------------------------------------------------------------
\* the git-dir lies below a directory named worktrees
UnderWorktreesSegment(gitDir) == \E i \in 1..(Len(gitDir) - 1) : gitDir[i] = "worktrees"

C26_AsStated ==
    (last.op = "Status" /\ LogHasRan(last.log, "git rev-parse --git-dir", last.piece, TRUE))
    => /\ last.info.InPiece <=> UnderWorktreesSegment(RevParseGitDir(World, last.piece))
       /\ last.piece = MainDir => ~last.info.InPiece

\* ------------------------------------------------------------------------
\* C27: for each piece returned by CleanupMergedPieces, IssueUpdated is true
\* if and only if that run changed the piece's issue status to done.
\* ------------------------------------------------------------------------
C27_AsStated ==
    last.op = "CleanupMergedPieces"
    => \A i \in 1..Len(last.results) :
          last.results[i].IssueUpdated
          <=> LogHasRan(last.log, "fs write issue", last.results[i].PieceName, TRUE)

\* ------------------------------------------------------------------------
\* C28: the merge determination of IsBranchMerged (IsMerged and Method) is
\* the same whether the branch exists on the remote, does not exist there,
\* or the remote check fails; ExistsOnRemote is only recorded in the result.
\* ------------------------------------------------------------------------
\* the commands that failed in a call
FaultSeen(entry) ==
    IF "exit" \in DOMAIN entry THEN entry.exit \notin {0, 1} ELSE ~entry.ok
FaultOf(entry) ==
    IF "exit" \in DOMAIN entry /\ entry.exit \in FailureExits
    THEN ExitsWith(entry.cmd, AnyArg, entry.exit)
    ELSE Cmd(entry.cmd, AnyArg)
FailedCmds(log) == {FaultOf(log[i]) : i \in {k \in 1..Len(log) : FaultSeen(log[k])}}

RemoteCheck == Cmd("git ls-remote", AnyArg)

\* the call just made gives the same IsMerged, Method and error as the same
\* call with the branch on the remote, with the branch absent from it, and
\* with git ls-remote failing, and ExistsOnRemote follows the remote
C28_RemoteDoesNotDecide ==
    (last.op = "IsBranchMerged")
    => \A rem \in {remote \cup {branchOf[last.piece]}, remote \ {branchOf[last.piece]}},
          lsFails \in BOOLEAN :
          \E r \in {IsBranchMerged([World EXCEPT !.remote = rem], branchOf[last.piece],
                                    (FailedCmds(last.log) \ {RemoteCheck})
                                    \cup (IF lsFails THEN {RemoteCheck} ELSE {}))} :
              /\ r.status.IsMerged = last.status.IsMerged
              /\ r.status.Method = last.status.Method
              /\ r.err = last.err
              /\ r.status.ExistsOnRemote = (~lsFails /\ branchOf[last.piece] \in rem)

\* a branch that is on the remote was found merged by git branch --merged
\* while the remote check failed
C28_Witness ==
    /\ last.op = "IsBranchMerged"
    /\ branchOf[last.piece] \in remote
    /\ LogFailed(last.log, "git ls-remote")
    /\ ~last.status.ExistsOnRemote
    /\ last.status.IsMerged
    /\ last.status.Method = "git"

\* ------------------------------------------------------------------------
\* C29: PRMetadata is best-effort: when pr-metadata.json is absent,
\* unreadable, or could not be written, no operation fails because of it;
\* CreatePR still succeeds, and IsBranchMerged and CleanupMergedPieces decide
\* by the remaining strategies.
\* ------------------------------------------------------------------------
\* the commands that failed for one argument in a call
FailedFor(log, a) ==
    {FaultOf(log[i]) : i \in {k \in 1..Len(log) : log[k].arg = a /\ FaultSeen(log[k])}}

\* what git branch --merged and then the commit history say of a branch
RemainingStrategies(w, branch, F) ==
    IF ~Fails(F, "git branch --merged", branch) /\ ListedAsMerged(w, branch)
    THEN [IsMerged |-> TRUE, Method |-> "git", err |-> ""]
    ELSE IF checkCommitMerged(w, branch, F).err # ""
    THEN [IsMerged |-> FALSE, Method |-> "", err |-> "failed to check commit history"]
    ELSE IF checkCommitMerged(w, branch, F).merged
    THEN [IsMerged |-> TRUE, Method |-> "commit", err |-> ""]
    ELSE [IsMerged |-> FALSE, Method |-> "", err |-> ""]

NoMetadataRead(log, branch) == LogHasRan(log, "fs read pr-metadata.json", branch, FALSE)

HasBlock(doc) == HasFrontmatterPrefix(doc) /\ ClosingLines(doc) # {}

IsStatusLine(line) == statusRegexMatch(TrimSpace(line))

\* the lines of the block that are not status lines
OtherFrontmatterLines(doc) ==
    IF HasBlock(doc)
    THEN SelectSeq(SubSeq(doc, 2, EndIdx(doc) - 1), LAMBDA l : ~IsStatusLine(l))
    ELSE <<>>

\* the text after the block, the whole text when there is no block
Body(doc) ==
    IF HasBlock(doc) THEN SplitJoined(SubSeq(doc, EndIdx(doc) + 1, Len(doc))) ELSE doc

C30_AsStated ==
    (last.op = "UpdateStatus" /\ last.newStatus \in Statuses)
    => /\ last.err = ""
       /\ last.parsed = [status |-> last.newStatus, err |-> ""]
       /\ OtherFrontmatterLines(last.updated) = OtherFrontmatterLines(last.doc)
       /\ Body(last.updated) = Body(last.doc)

\* ------------------------------------------------------------------------
\* C31: SanitizePieceName is idempotent: sanitizing the name it returned
\* gives that name again, for every input.
\* ------------------------------------------------------------------------
C31_SanitizeIdempotent ==
    last.op = "SanitizePieceName" =>
        SanitizePieceName(last.sanitized) = last.sanitized

\* a name with a hyphen in front, a capital and a run of separators at
\* its end has been sanitized to something else than itself
C31_Witness ==
    /\ last.op = "SanitizePieceName"
    /\ last.text = <<Hyphen, "A", " ", "_">>
    /\ last.sanitized = <<"a">>

\* ------------------------------------------------------------------------
\* C32: a piece made by CreatePiece whose branch still points at the commit
\* of main, and which nothing has merged, is not reported as merged by
\* IsBranchMerged and is not removed by CleanupMergedPieces. (Nothing merges
\* under SpecFresh, and every piece there was made by CreatePiece.)
\* ------------------------------------------------------------------------
PointsAtMain(branch) == own[branch] = 0 /\ behind[branch] = 0

C32_AsStated ==
    /\ last.op = "IsBranchMerged" /\ PointsAtMain(branchOf[last.piece]) =>
           ~last.status.IsMerged
    /\ last.op = "CleanupMergedPieces" /\ ~last.dryRun =>
           \A i \in 1..Len(last.results) :
               ~PointsAtMain(BranchAdded(last.results[i].PieceName))

\* ------------------------------------------------------------------------
\* C33: after MergePiece has succeeded for a piece (it succeeds only for a
\* piece with a commit of its own: git commit has nothing to commit
\* otherwise), a non-dry-run CleanupMergedPieces that runs next, no command
\* failing, detects the branch of the piece as merged and removes the piece.
\* ------------------------------------------------------------------------
CleanupNext == CleanupMergedPieces(World, FALSE, {})

C33_AsStated ==
    last.op = "MergePiece" /\ last.err = "" =>
        /\ last.piece \in CleanupNext.detected
        /\ last.piece \in ResultNames(CleanupNext.results)
        /\ last.piece \notin CleanupNext.w.worktrees

\* ------------------------------------------------------------------------
\* C34 as stated: when another invocation commits on main between the
\* ahead check of MergePiece and its commit, MergePiece does not commit a
\* squash onto a main that has commits the piece branch lacks.
\* ------------------------------------------------------------------------
InFlight == last.op \in {"MergePiece.checked", "MergePiece.raced"}
InFlightBranch == CurrentBranch(World, last.piece, {}).branch
SquashCommitted(log, branch) == LogHasRan(log, "git commit", branch, TRUE)

C34_AsStated ==
    [][InFlight /\ last'.op = "MergePiece" /\ SquashCommitted(last'.log, InFlightBranch)
           => behind[InFlightBranch] = 0]_vars

\* C34: the condition holds at the moment of the check only. The check lets
\* the call go on only when main has no commit the piece branch lacks; the
\* rest of the call does not look at main again: after a commit that
\* another invocation made on main in between, it commits the squash on top
\* of that commit whenever none of its own commands fails.
C34_SafeAtCheckOnly ==
    [][/\ last.op = "MergePiece.checked" => behind[InFlightBranch] = 0
       /\ last.op = "MergePiece.raced" /\ last'.op = "MergePiece"
              /\ FailedCmds(last'.log) = {}
           => /\ behind[InFlightBranch] > 0
              /\ SquashCommitted(last'.log, InFlightBranch)]_vars

\* a call whose check has passed, main having moved since, and whose
\* remaining steps commit the squash
C34_Witness ==
    /\ last.op = "MergePiece.raced"
    /\ behind[InFlightBranch] > 0
    /\ \E H \in HookInputs({HookAfterPieceMerge}) :
           LET r == MergePieceFromCheck(World, last.piece, InFlightBranch,
                                        last.log, last.warnings, H, {})
           IN  r.err = "" /\ SquashCommitted(r.log, InFlightBranch)

\* ------------------------------------------------------------------------
\* C35: a call of CreatePieceFromIssue or CleanupMergedPieces leaves the
\* status of every issue as it is, or moves it one step forward, from todo
\* (the default of a file without the field) to in-progress or from
\* in-progress to done: never backward, never from todo to done, and never
\* away from done.
\* ------------------------------------------------------------------------
IssueCalls == {"CreatePieceFromIssue", "CleanupMergedPieces"}

OneStepForward(before, after) ==
    \/ ParseStatus(before) = [status |-> StatusTodo, err |-> ""] /\ after = StatusInProgress
    \/ before = StatusInProgress /\ after = StatusDone

C35_StatusOnlyForward ==
    [][Idle /\ last'.op \in IssueCalls =>
          \A f \in IssueFiles :
              \/ issueStatus'[f] = issueStatus[f]
              \/ OneStepForward(issueStatus[f], issueStatus'[f])]_vars

\* a cleanup has just moved the issue of a piece from in-progress to done
C35_Witness ==
    /\ last.op = "CleanupMergedPieces"
    /\ LogHasRan(last.log, "fs write issue", IssuePieceName, TRUE)
    /\ issueStatus[InsideIssue] = StatusDone

\* ------------------------------------------------------------------------
\* C36: in a cleanup that is not a dry run, a piece whose worktree could not
\* be removed is not in the returned list, keeps its worktree, and its
\* issue is not written, so the status of that issue is not advanced; its
\* tmux session was killed before the removal was tried and is gone.
\* ------------------------------------------------------------------------
IssueOf(p) == CleanAbs(RepoRoot \o marker[p])

C36_FailedRemovalNotReported ==
    [][last'.op = "CleanupMergedPieces" /\ ~last'.dryRun =>
          \A p \in worktrees :
              LogHasRan(last'.log, "git worktree remove", p, FALSE) =>
                  /\ p \notin ResultNames(last'.results)
                  /\ p \in worktrees'
                  /\ ~LogHasFor(last'.log, "fs write issue", p)
                  /\ marker[p] # NoPath => issueStatus'[IssueOf(p)] = issueStatus[IssueOf(p)]
                  /\ LogHasFor(last'.log, "tmux kill-session", p)
                  /\ LogHasRan(last'.log, "tmux kill-session", p, TRUE) => p \notin sessions']_vars

\* the piece made from the issue is half cleaned: session killed, worktree
\* still there, not reported, its issue still in progress
C36_Witness ==
    /\ last.op = "CleanupMergedPieces"
    /\ ~last.dryRun
    /\ LogHasRan(last.log, "tmux kill-session", IssuePieceName, TRUE)
    /\ LogHasRan(last.log, "git worktree remove", IssuePieceName, FALSE)
    /\ IssuePieceName \in worktrees \ sessions
    /\ IssuePieceName \notin ResultNames(last.results)
    /\ issueStatus[InsideIssue] = StatusInProgress

\* ------------------------------------------------------------------------
\* C37: a CreatePieceFromIssue call that returns an error, that of a
\* failed CreatePiece included (name taken, worktree not added, hook
\* failed), writes no marker and leaves every issue status as it is; a
\* marker or a status is written only by a call that returns no error,
\* after it has added the worktree of the piece and the on-piece-create
\* hook has not failed.
\* ------------------------------------------------------------------------
C37_NothingWrittenOnFailure ==
    [][last'.op = "CreatePieceFromIssue" =>
          /\ last'.err # "" =>
                /\ marker' = marker
                /\ issueStatus' = issueStatus
                /\ ~LogHas(last'.log, "fs write issue")
          /\ marker' # marker \/ issueStatus' # issueStatus =>
                /\ last'.err = ""
                /\ IssuePieceName \in worktrees' \ worktrees
                /\ LogHasRan(last'.log, "git worktree add", IssuePieceName, TRUE)
                /\ ~CreateHookFailed(last'.log)]_vars

\* the hook failed after the piece of a todo issue was made: the piece is
\* undone, there is no marker and the issue is still todo
C37_Witness ==
    /\ last.op = "CreatePieceFromIssue"
    /\ last.err = "on-piece-create hook failed"
    /\ LogHasRan(last.log, "git worktree add", IssuePieceName, TRUE)
    /\ marker[IssuePieceName] = NoPath
    /\ issueStatus[InsideIssue] = StatusTodo

\* ------------------------------------------------------------------------
\* C38: what CreatePiece undoes is what the same call made: it runs git
\* worktree remove only for the worktree its own git worktree add created,
\* it kills a tmux session only if its own tmux new-session created it,
\* every worktree and session that was there before the call is there
\* after it, and a call that did not add its worktree removes and kills
\* nothing.
\* ------------------------------------------------------------------------
CreateCalls == {"CreatePiece", "CreatePieceFromIssue"}

C38_UndoOnlyOwnWork ==
    [][last'.op \in CreateCalls =>
          /\ \A p \in Names :
                /\ LogHasFor(last'.log, "git worktree remove", p)
                      => LogHasRan(last'.log, "git worktree add", p, TRUE)
                /\ LogHasFor(last'.log, "tmux kill-session", p)
                      => LogHasRan(last'.log, "tmux new-session", p, TRUE)
          /\ worktrees \subseteq worktrees'
          /\ sessions \subseteq sessions'
          /\ (\A p \in Names : ~LogHasRan(last'.log, "git worktree add", p, TRUE))
                => /\ ~LogHas(last'.log, "git worktree remove")
                   /\ ~LogHas(last'.log, "tmux kill-session")
                   /\ worktrees' = worktrees
                   /\ sessions' = sessions]_vars

\* the hook failed in a call that added its worktree but found the session
\* name taken: the worktree was removed, the session of the earlier call
\* was not killed
C38_Witness ==
    /\ last.op = "CreatePiece"
    /\ CreateHookFailed(last.log)
    /\ LogHasRan(last.log, "git worktree add", last.piece, TRUE)
    /\ LogHasRan(last.log, "tmux new-session", last.piece, FALSE)
    /\ LogHasRan(last.log, "git worktree remove", last.piece, TRUE)
    /\ ~LogHas(last.log, "tmux kill-session")
    /\ last.piece \in sessions \ worktrees

\* ------------------------------------------------------------------------
\* C39: IsCommitInBranch answers "not an ancestor" without an error only
\* when `git merge-base --is-ancestor` exited with status 1, and every
\* other failure of the command, whatever its exit status, comes back as
\* an error.
\* ------------------------------------------------------------------------
\* the status with which the command of the call exited
ExitStatus == last.log[1].exit

C39_AsStated ==
    last.op = "IsCommitInBranch"
    => /\ (last.err = "" /\ ~last.status.IsMerged) => ExitStatus = 1
       /\ ExitStatus \notin {0, 1} => last.err # ""

====
